---- MODULE Spec2Model ----
(***************************************************************************)
(* Model of the HHI engine of the competition toolkit:                     *)
(*   utils/charts.py   calculate_hhi, get_hhi_interpretation,              *)
(*                     validate_market_shares, normalize_market_shares     *)
(*   pages/02_HHI_Calculator_and_Visualizer.py  calculate_hhi_and_visualize*)
(*                                                                         *)
(* The code computes on Python floats (IEEE-754 binary64).  A number is    *)
(* modelled exactly as a dyadic rational  s * m * 2^e  whose magnitude m   *)
(* is an arbitrary-precision natural (a little-endian sequence of 13-bit   *)
(* limbs: the integers of the model are 32 bits wide).  Every float       *)
(* operation of the code is the exact operation followed by rounding to    *)
(* 53 significant bits, ties to even.  Exponent range (overflow,           *)
(* subnormals) is not modelled: all magnitudes of the model lie between    *)
(* 2^-60 and 2^40.                                                         *)
(***************************************************************************)
EXTENDS Integers, Sequences, FiniteSets, TLC

(***************************************************************************)
(* Arbitrary-precision naturals: little-endian sequences of limbs below    *)
(* Base, without leading zero limbs (zero is the empty sequence).  Carries *)
(* are resolved by look-ahead over the limbs, not limb after limb.         *)
(***************************************************************************)
LimbBits == 13

Base == 2^LimbBits

Limb(a, i) == IF i >= 1 /\ i <= Len(a) THEN a[i] ELSE 0

BMax(x, y) == IF x > y THEN x ELSE y

BMin(x, y) == IF x < y THEN x ELSE y

\* the function f on 1..n as a sequence with its elements evaluated
AsTuple(f) == f \o <<>>

\* index of the highest non-zero limb, 0 if there is none
BTop(a) ==
  IF \A i \in 1..Len(a) : a[i] = 0 THEN 0
  ELSE CHOOSE i \in 1..Len(a) : a[i] # 0 /\ \A j \in (i + 1)..Len(a) : a[j] = 0

BTrim(a) == IF a = <<>> THEN a ELSE SubSeq(a, 1, BTop(a))

\* for 0 <= n < 2^31
BFromInt(n) == BTrim(<<n % Base, (n \div Base) % Base, n \div (Base * Base)>>)

\* for a < 2^31 (a longer a overflows the integers)
BToInt(a) ==
  Limb(a, 1) + Limb(a, 2) * Base + Limb(a, 3) * Base * Base
    + (IF Len(a) > 3 THEN Base * Base * Base ELSE 0)

\* the carry into limb i of the column values v, each at most 2 * Base - 2
CarryIn(v, i) ==
  IF \E j \in 1..(i - 1) :
       v[j] >= Base /\ \A k \in (j + 1)..(i - 1) : v[k] >= Base - 1
  THEN 1 ELSE 0

\* the number with column values v, each at most 2 * Base - 2
BResolve(v) ==
  IF v = <<>> THEN v
  ELSE BTrim(AsTuple([i \in 1..(Len(v) + 1) |-> (Limb(v, i) + CarryIn(v, i)) % Base]))

\* one pass of carries: column values below 2^31 become at most
\* Base - 1 + 2^18, and those at most Base + 32
BCarryPass(v) ==
  IF v = <<>> THEN v
  ELSE AsTuple([i \in 1..(Len(v) + 1) |-> (Limb(v, i) % Base) + (Limb(v, i - 1) \div Base)])

BAdd(a, b) ==
  IF a = <<>> THEN b
  ELSE IF b = <<>> THEN a
  ELSE BResolve(AsTuple([i \in 1..BMax(Len(a), Len(b)) |-> Limb(a, i) + Limb(b, i)]))

\* the borrow from limb i of the column differences d
BorrowIn(d, i) ==
  IF \E j \in 1..(i - 1) : d[j] < 0 /\ \A k \in (j + 1)..(i - 1) : d[k] <= 0
  THEN 1 ELSE 0

BSubResolve(d) ==
  IF d = <<>> THEN d
  ELSE BTrim(AsTuple([i \in 1..Len(d) |-> (d[i] - BorrowIn(d, i) + Base) % Base]))

\* a - b for a >= b
BSub(a, b) ==
  IF a = <<>> \/ b = <<>> THEN a
  ELSE BSubResolve(AsTuple([i \in 1..Len(a) |-> a[i] - Limb(b, i)]))

BCmpLimb(a, b, i) == IF a[i] > b[i] THEN 1 ELSE -1

\* -1, 0, 1 as a < b, a = b, a > b
BCmp(a, b) ==
  IF Len(a) > Len(b) THEN 1
  ELSE IF Len(a) < Len(b) THEN -1
  ELSE IF \A i \in 1..Len(a) : a[i] = b[i] THEN 0
  ELSE BCmpLimb(a, b, CHOOSE i \in 1..Len(a) :
                        a[i] # b[i] /\ \A j \in (i + 1)..Len(a) : a[j] = b[j])

\* a * k for 0 <= k < Base
BMulSmall(a, k) ==
  IF a = <<>> \/ k = 0 THEN <<>>
  ELSE BResolve(AsTuple([i \in 1..(Len(a) + 1) |->
                           ((Limb(a, i) * k) % Base) + ((Limb(a, i - 1) * k) \div Base)]))

\* column i of the product: the sum of a[i + 1 - j] * b[j] for j from j0
RECURSIVE BColumn(_, _, _, _)
BColumn(a, b, i, j0) ==
  IF j0 > Len(b) THEN 0 ELSE Limb(a, i + 1 - j0) * b[j0] + BColumn(a, b, i, j0 + 1)

\* for b of at most 31 limbs
BMulColumns(a, b) == AsTuple([i \in 1..(Len(a) + Len(b) - 1) |-> BColumn(a, b, i, 1)])

BMul(a, b) ==
  IF a = <<>> \/ b = <<>> THEN <<>>
  ELSE BResolve(BCarryPass(BCarryPass(
         IF Len(a) < Len(b) THEN BMulColumns(b, a) ELSE BMulColumns(a, b))))

BShlBits(a, q, r) ==
  BTrim(AsTuple([i \in 1..(Len(a) + q + 1) |->
                   ((Limb(a, i - q) * 2^r) % Base)
                     + (Limb(a, i - q - 1) \div 2^(LimbBits - r))]))

\* a * 2^n
BShl(a, n) ==
  IF a = <<>> \/ n = 0 THEN a ELSE BShlBits(a, n \div LimbBits, n % LimbBits)

BShrBits(a, q, r) ==
  BTrim(AsTuple([i \in 1..(Len(a) - q) |->
                   (Limb(a, i + q) \div 2^r)
                     + ((Limb(a, i + q + 1) % 2^r) * 2^(LimbBits - r))]))

\* floor(a / 2^n)
BShr(a, n) ==
  IF a = <<>> \/ n = 0 THEN a ELSE BShrBits(a, n \div LimbBits, n % LimbBits)

\* number of bits of 1 <= k < Base
BitLenSmall(k) == CHOOSE n \in 1..LimbBits : 2^(n - 1) <= k /\ k < 2^n

BBitLen(a) ==
  IF a = <<>> THEN 0 ELSE LimbBits * (Len(a) - 1) + BitLenSmall(a[Len(a)])

\* number of trailing zero bits of 1 <= k < Base
TrailingZerosSmall(k) ==
  CHOOSE n \in 0..(LimbBits - 1) : k % 2^n = 0 /\ k % 2^(n + 1) # 0

BTrailingZerosAt(a, i) == LimbBits * (i - 1) + TrailingZerosSmall(a[i])

\* number of trailing zero bits of a > 0
BTrailingZeros(a) ==
  BTrailingZerosAt(a, CHOOSE i \in 1..Len(a) : a[i] # 0 /\ \A j \in 1..(i - 1) : a[j] = 0)

BIsOdd(a) == a # <<>> /\ a[1] % 2 = 1

\* b * d <= r
BFits(r, b, d) == BCmp(BMulSmall(b, d), r) # 1

\* the estimate from the top limbs is at most 2 too large
DivDigitFrom(r, b, est) ==
  IF BFits(r, b, est) THEN est
  ELSE IF BFits(r, b, est - 1) THEN est - 1
  ELSE est - 2

DivEstimate(r, b, n) ==
  BMin(Base - 1, (Limb(r, n + 1) * Base + Limb(r, n)) \div b[n])

\* floor(r / b) for r < b * Base, the top limb of b at least Base / 2
DivDigit(r, b) == DivDigitFrom(r, b, DivEstimate(r, b, Len(b)))

\* schoolbook long division of the limbs i, i - 1, .., 1 of a by b, given the
\* quotient st.q and the remainder st.r < b of the limbs above i
RECURSIVE BDivLoop(_, _, _, _)
BDivDigit(a, b, i, q, r1, d) ==
  BDivLoop(a, b, i - 1, [q |-> <<d>> \o q, r |-> BSub(r1, BMulSmall(b, d))])

BDivLoop(a, b, i, st) ==
  IF i = 0 THEN st
  ELSE IF st.r = <<>> /\ a[i] = 0
       THEN BDivLoop(a, b, i - 1, [q |-> <<0>> \o st.q, r |-> <<>>])
       ELSE BDivDigit(a, b, i, st.q, <<a[i]>> \o st.r,
                      DivDigit(<<a[i]>> \o st.r, b))

BDivResult(res) == [q |-> BTrim(res.q), exact |-> res.r = <<>>]

\* the top Len(b) - 1 limbs of a are below b: the remainder to start from
BDivNormalized(a, b) ==
  IF Len(a) < Len(b) THEN [q |-> <<>>, exact |-> a = <<>>]
  ELSE BDivResult(BDivLoop(a, b, Len(a) - Len(b) + 1,
                           [q |-> <<>>, r |-> SubSeq(a, Len(a) - Len(b) + 2, Len(a))]))

\* the shift that brings the top limb of b to Base / 2 or more
NormShift(b) == (LimbBits - (BBitLen(b) % LimbBits)) % LimbBits

\* quotient floor(a / b) and whether the division is exact, for b > 0
BDivMod(a, b) ==
  BDivNormalized(BShl(a, NormShift(b)), BShl(b, NormShift(b)))

(***************************************************************************)
(* Numbers: exact dyadic rationals s * m * 2^e, kept canonical (m odd, or  *)
(* Zero).  Python's int and float values that compare equal are the same   *)
(* number here (0 == 0.0, 40 == 40.0).                                     *)
(***************************************************************************)
Zero == [s |-> 0, m |-> <<>>, e |-> 0]

DyShifted(s, m, e, tz) == [s |-> s, m |-> BShr(m, tz), e |-> e + tz]

Dy(s, m, e) ==
  IF s = 0 \/ m = <<>> THEN Zero ELSE DyShifted(s, m, e, BTrailingZeros(m))

FromInt(n) ==
  IF n = 0 THEN Zero
  ELSE IF n < 0 THEN Dy(-1, BFromInt(-n), 0) ELSE Dy(1, BFromInt(n), 0)

\* the power of two 2^k, k any integer
Pow2(k) == [s |-> 1, m |-> <<1>>, e |-> k]

DNeg(x) == [x EXCEPT !.s = -x.s]

DAbs(x) == [x EXCEPT !.s = IF x.s = 0 THEN 0 ELSE 1]

DSubMagnitudes(xs, a, ys, b, e, c) ==
  IF c = 0 THEN Zero
  ELSE IF c = 1 THEN Dy(xs, BSub(a, b), e)
  ELSE Dy(ys, BSub(b, a), e)

\* xs * a * 2^e + ys * b * 2^e
DAddAligned(xs, a, ys, b, e) ==
  IF xs = ys THEN Dy(xs, BAdd(a, b), e)
  ELSE DSubMagnitudes(xs, a, ys, b, e, BCmp(a, b))

DAddAt(x, y, e) == DAddAligned(x.s, BShl(x.m, x.e - e), y.s, BShl(y.m, y.e - e), e)

DAdd(x, y) ==
  IF x.s = 0 THEN y
  ELSE IF y.s = 0 THEN x
  ELSE DAddAt(x, y, IF x.e < y.e THEN x.e ELSE y.e)

DSub(x, y) == DAdd(x, DNeg(y))

DMul(x, y) ==
  IF x.s = 0 \/ y.s = 0 THEN Zero
  ELSE Dy(x.s * y.s, BMul(x.m, y.m), x.e + y.e)

\* -1, 0, 1 as x < y, x = y, x > y
DCmp(x, y) ==
  IF x.s # y.s THEN (IF x.s < y.s THEN -1 ELSE 1)
  ELSE IF x.s = 0 THEN 0
  ELSE DSub(x, y).s

Less(x, y) == DCmp(x, y) = -1

Greater(x, y) == DCmp(x, y) = 1

LessEq(x, y) == DCmp(x, y) # 1

(***************************************************************************)
(* binary64 arithmetic: the exact result rounded to 53 significant bits,   *)
(* ties to even.                                                           *)
(***************************************************************************)
\* bit k of a, bit 0 the lowest
BBit(a, k) == (Limb(a, (k \div LimbBits) + 1) \div 2^(k % LimbBits)) % 2

\* round up when the sh >= 1 low bits of m > 0 are dropped for q: they are more
\* than half, or half and q is odd (ties to even)
RoundsUp(m, q, sh) ==
  BBit(m, sh - 1) = 1 /\ (BTrailingZeros(m) < sh - 1 \/ BIsOdd(q))

RoundQuotient(s, m, e, sh, q) ==
  Dy(s, IF RoundsUp(m, q, sh) THEN BAdd(q, <<1>>) ELSE q, e + sh)

RoundDropping(s, m, e, sh) == RoundQuotient(s, m, e, sh, BShr(m, sh))

Round53(s, m, e) ==
  IF m = <<>> THEN Zero
  ELSE IF BBitLen(m) <= 53 THEN Dy(s, m, e) ELSE RoundDropping(s, m, e, BBitLen(m) - 53)

FloatRound(x) == Round53(x.s, x.m, x.e)

\* x + y
FloatAdd(x, y) ==
  IF x.s = 0 THEN y ELSE IF y.s = 0 THEN x ELSE FloatRound(DAdd(x, y))

\* x - y
FloatSub(x, y) ==
  IF y.s = 0 THEN x ELSE IF x.s = 0 THEN DNeg(y) ELSE FloatRound(DSub(x, y))

\* x * y
FloatMul(x, y) ==
  IF x.s = 0 \/ y.s = 0 THEN Zero ELSE FloatRound(DMul(x, y))

\* x / y for y # 0: the quotient to 56 or more bits, with a sticky bit for the
\* inexact remainder, then rounded
FloatDivRounded(s, d, e) ==
  IF d.exact THEN Round53(s, BShl(d.q, 1), e)
  ELSE Round53(s, BAdd(BShl(d.q, 1), <<1>>), e)

FloatDivShifted(x, y, k) ==
  FloatDivRounded(x.s * y.s, BDivMod(BShl(x.m, k), y.m), x.e - y.e - k - 1)

FloatDivBits(x, y) == 56 + BBitLen(y.m) - BBitLen(x.m)

FloatDiv(x, y) ==
  IF x.s = 0 THEN Zero
  ELSE FloatDivShifted(x, y, IF FloatDivBits(x, y) < 0 THEN 0 ELSE FloatDivBits(x, y))

\* x ** 2.  The C library's pow is taken to return the correctly rounded square.
FloatSquare(x) == IF x.s = 0 THEN Zero ELSE FloatRound(DMul(x, x))

\* the float literal d / 10^k, as Python reads a decimal literal: correctly rounded
Dec(d, k) == FloatDiv(FromInt(d), FromInt(10^k))

FormatQuotient(y, q) ==
  y.s * (BToInt(q) + (IF RoundsUp(y.m, q, -y.e) THEN 1 ELSE 0))

FormatScaled(y) ==
  IF y.s = 0 THEN 0
  ELSE IF y.e >= 0 THEN y.s * BToInt(BShl(y.m, y.e))
  ELSE FormatQuotient(y, BShr(y.m, -y.e))

\* format(x, ".<k>f") as the integer round-half-even(x * 10^k) of its digits
FormatFixed(x, k) == IF x.s = 0 THEN 0 ELSE FormatScaled(DMul(x, FromInt(10^k)))

(***************************************************************************)
(* The program state.                                                      *)
(*   py_sum   which summation the interpreter's built-in sum() performs on *)
(*            floats: "sequential" (left to right, CPython before 3.12) or *)
(*            "compensated" (Neumaier, CPython 3.12 and later); fixed for  *)
(*            a run of the program                                         *)
(*   call     the last direct call of a function of utils/charts.py (as    *)
(*            test_app.py calls them) with its argument and its result     *)
(*   ui       what the HHI page rendered for the last submission           *)
(*   history  the history file of the module that runs,                    *)
(*            data/<module>_history.json: whether it holds a JSON list,    *)
(*            and the records of that list                                 *)
(***************************************************************************)
VARIABLES py_sum, call, ui, history, saves, merger, compliance, dominance, session_state

vars == <<py_sum, call, ui, history, saves, merger, compliance, dominance, session_state>>

\* HHI_BANDS["low"]["max"]
HHI_BANDS_low_max == 1500

\* HHI_BANDS["moderate"]["max"]
HHI_BANDS_moderate_max == 2500

(***************************************************************************)
(* A MarketShareSet (a Python dict, insertion ordered, keys unique) is a   *)
(* sequence of [firm, share] entries with distinct firms.                  *)
(***************************************************************************)
Values(market_shares) == [i \in 1..Len(market_shares) |-> market_shares[i].share]

Keys(market_shares) == [i \in 1..Len(market_shares) |-> market_shares[i].firm]

RECURSIVE SumSequentialFrom(_, _, _)
SumSequentialFrom(v, i, acc) ==
  IF acc.s = 0 /\ i > Len(v) THEN Zero
  ELSE IF i > Len(v) THEN acc ELSE SumSequentialFrom(v, i + 1, FloatAdd(acc, v[i]))

\* sum(v) adding left to right from 0
SumSequential(v) == SumSequentialFrom(v, 1, Zero)

RECURSIVE SumCompensatedFrom(_, _, _, _)
\* the rounding error of t = f_result + x
Compensation(f_result, x, t) ==
  IF DCmp(DAbs(f_result), DAbs(x)) # -1
  THEN FloatAdd(FloatSub(f_result, t), x)
  ELSE FloatAdd(FloatSub(x, t), f_result)

SumCompensatedStep(v, i, f_result, c, t) ==
  SumCompensatedFrom(v, i + 1, t, FloatAdd(c, Compensation(f_result, v[i], t)))

SumCompensatedFrom(v, i, f_result, c) ==
  IF c.s = 0 /\ f_result.s = 0 /\ i > Len(v) THEN Zero
  ELSE IF i > Len(v)
       THEN IF c.s # 0 THEN FloatAdd(f_result, c) ELSE f_result
       ELSE SumCompensatedStep(v, i, f_result, c, FloatAdd(f_result, v[i]))

\* sum(v) with the running compensation of CPython 3.12's float loop
SumCompensated(v) == SumCompensatedFrom(v, 1, Zero, Zero)

\* the built-in sum() of this interpreter
PySum(v) == IF py_sum = "compensated" THEN SumCompensated(v) ELSE SumSequential(v)

(***************************************************************************)
(* utils/charts.py                                                         *)
(***************************************************************************)
\* Faulty variant: the band limits compared with <= (1500 low, 2500 moderate).
get_hhi_interpretation_closed(hhi_value) ==
  IF LessEq(hhi_value, FromInt(HHI_BANDS_low_max))
  THEN [band |-> "low", description |-> "Low concentration",
        color |-> "green", hhi_value |-> hhi_value]
  ELSE IF LessEq(hhi_value, FromInt(HHI_BANDS_moderate_max))
  THEN [band |-> "moderate", description |-> "Moderate concentration",
        color |-> "orange", hhi_value |-> hhi_value]
  ELSE [band |-> "high", description |-> "High concentration",
        color |-> "red", hhi_value |-> hhi_value]

get_hhi_interpretation(hhi_value) ==
  IF Less(hhi_value, FromInt(HHI_BANDS_low_max))
  THEN [band |-> "low", description |-> "Low concentration",
        color |-> "green", hhi_value |-> hhi_value]
  ELSE IF Less(hhi_value, FromInt(HHI_BANDS_moderate_max))
  THEN [band |-> "moderate", description |-> "Moderate concentration",
        color |-> "orange", hhi_value |-> hhi_value]
  ELSE [band |-> "high", description |-> "High concentration",
        color |-> "red", hhi_value |-> hhi_value]

\* (share / 100) ** 2
SquaredShare(share) == FloatSquare(FloatDiv(share, FromInt(100)))

\* Faulty variant: the fractions are summed without being squared.
calculate_hhi_unsquared(market_shares) ==
  FloatMul(PySum(AsTuple([i \in 1..Len(market_shares) |->
                            FloatDiv(market_shares[i].share, FromInt(100))])),
           FromInt(10000))

calculate_hhi(market_shares) ==
  LET squared_shares ==
        AsTuple([i \in 1..Len(market_shares) |-> SquaredShare(market_shares[i].share)])
  IN  FloatMul(PySum(squared_shares), FromInt(10000))

\* An error message: its fixed text, the firm it names and the number it
\* carries (the digits of the total formatted with one decimal), if any.
Message(text, firm, total) == [text |-> text, firm |-> firm, total |-> total]

NoMessage == Message("", <<>>, <<>>)

\* Faulty variant: the shares are not looked at one by one.
CheckEachShare_skipped(market_shares, i) ==
  [is_valid |-> TRUE, error_message |-> NoMessage]

RECURSIVE CheckEachShare(_, _)
CheckEachShare(market_shares, i) ==
  IF i > Len(market_shares) THEN [is_valid |-> TRUE, error_message |-> NoMessage]
  ELSE IF Less(market_shares[i].share, Zero)
  THEN [is_valid |-> FALSE,
        error_message |-> Message("Market share for {firm} cannot be negative",
                                  <<market_shares[i].firm>>, <<>>)]
  ELSE IF Greater(market_shares[i].share, FromInt(100))
  THEN [is_valid |-> FALSE,
        error_message |-> Message("Market share for {firm} cannot exceed 100%",
                                  <<market_shares[i].firm>>, <<>>)]
  ELSE CheckEachShare(market_shares, i + 1)

ValidateTotal(market_shares, total_share) ==
  IF market_shares = <<>>
  THEN [is_valid |-> FALSE,
        error_message |-> Message("No market shares provided", <<>>, <<>>)]
  ELSE IF Greater(total_share, FromInt(100))
  THEN [is_valid |-> FALSE,
        error_message |-> Message("Total market share exceeds 100% ({total_share:.1f}%)",
                                  <<>>, <<FormatFixed(total_share, 1)>>)]
  ELSE IF Less(total_share, Zero)
  THEN [is_valid |-> FALSE,
        error_message |-> Message("Total market share cannot be negative", <<>>, <<>>)]
  ELSE CheckEachShare(market_shares, 1)

\* total_share = sum(market_shares.values()) is computed after the test for the
\* empty mapping, whose sum is 0
validate_market_shares(market_shares) ==
  ValidateTotal(market_shares, PySum(Values(market_shares)))

\* x / y raises ZeroDivisionError for y = 0
DivisionRaises(x, y) == y.s = 0

\* Faulty variant: the fractions are not multiplied by 100.
NormalizeBy_fractions(market_shares, total_share) ==
  IF total_share = Zero
  THEN [raised |-> FALSE, value |-> market_shares]
  ELSE [raised |-> FALSE,
        value |-> AsTuple([i \in 1..Len(market_shares) |->
                     [firm  |-> market_shares[i].firm,
                      share |-> FloatDiv(market_shares[i].share, total_share)]])]

\* Faulty variant: the shares are multiplied by 100 and not divided by the total.
NormalizeBy_undivided(market_shares, total_share) ==
  IF total_share = Zero
  THEN [raised |-> FALSE, value |-> market_shares]
  ELSE [raised |-> FALSE,
        value |-> AsTuple([i \in 1..Len(market_shares) |->
                     [firm  |-> market_shares[i].firm,
                      share |-> FloatMul(market_shares[i].share, FromInt(100))]])]

\* Faulty variant: the result lists the firms in reverse order.
NormalizeBy_reversed(market_shares, total_share) ==
  IF total_share = Zero
  THEN [raised |-> FALSE, value |-> market_shares]
  ELSE [raised |-> FALSE,
        value |-> AsTuple([i \in 1..Len(market_shares) |->
                     [firm  |-> market_shares[Len(market_shares) + 1 - i].firm,
                      share |-> FloatMul(
                                  FloatDiv(market_shares[Len(market_shares) + 1 - i].share,
                                           total_share),
                                  FromInt(100))]])]

\* Faulty variant: no test for a zero total before the division.
NormalizeBy_unguarded(market_shares, total_share) ==
  IF \E i \in 1..Len(market_shares) :
       DivisionRaises(market_shares[i].share, total_share)
  THEN [raised |-> TRUE, value |-> <<>>]
  ELSE [raised |-> FALSE,
        value |-> AsTuple([i \in 1..Len(market_shares) |->
                     [firm  |-> market_shares[i].firm,
                      share |-> FloatMul(FloatDiv(market_shares[i].share, total_share),
                                         FromInt(100))]])]

NormalizeBy(market_shares, total_share) ==
  IF total_share = Zero
  THEN [raised |-> FALSE, value |-> market_shares]
  ELSE IF \E i \in 1..Len(market_shares) :
            DivisionRaises(market_shares[i].share, total_share)
  THEN [raised |-> TRUE, value |-> <<>>]
  ELSE [raised |-> FALSE,
        value |-> AsTuple([i \in 1..Len(market_shares) |->
                     [firm  |-> market_shares[i].firm,
                      share |-> FloatMul(FloatDiv(market_shares[i].share, total_share),
                                         FromInt(100))]])]

\* the outcome of a call: the returned mapping, or an exception raised
normalize_market_shares(market_shares) ==
  NormalizeBy(market_shares, PySum(Values(market_shares)))

(***************************************************************************)
(* Inputs.                                                                 *)
(***************************************************************************)
\* the longest generated share set
MaxFirms == 2

\* the form's default firm names, f"Firm {i+1}"
FirmName(i) == <<"Firm 1", "Firm 2", "Firm 3", "Firm 4", "Firm 5", "Firm 6">>[i]

Entry(firm, share) == [firm |-> firm, share |-> share]

\* share values of the generated sets: 0, 0.1, 50, 100, and the out-of-range
\* -10 and 105
GridShares == {Zero, Dec(1, 1), FromInt(50), FromInt(100), FromInt(-10), FromInt(105)}

GridShareSets ==
  UNION {[1..n -> GridShares] : n \in 0..MaxFirms}

Named(shares) == [i \in 1..Len(shares) |-> Entry(FirmName(i), shares[i])]

\* {"Firm A": 40, "Firm B": 30, "Firm C": 20, "Firm D": 10} of test_app.py
TestShares ==
  <<Entry("Firm A", FromInt(40)), Entry("Firm B", FromInt(30)),
    Entry("Firm C", FromInt(20)), Entry("Firm D", FromInt(10))>>

Monopoly == <<Entry("A", FromInt(100))>>

Quartiles ==
  <<Entry("A", FromInt(25)), Entry("B", FromInt(25)),
    Entry("C", FromInt(25)), Entry("D", FromInt(25))>>

\* tenths that add up to 100 as entered in the form
TenthsTo100 == Named(<<Dec(4, 1), Dec(644, 1), Dec(352, 1)>>)

\* a total above 100 by less than 1e-6, and one above 100 by more
JustOver100 == Named(<<FromInt(50), Dec(500000005, 7)>>)

ClearlyOver100 == Named(<<FromInt(50), Dec(50000002, 6)>>)

NegativeAndOver == Named(<<FromInt(-10), FromInt(120)>>)

NegativeTotal == Named(<<FromInt(-30), FromInt(10)>>)

Cancelling == Named(<<FromInt(-5), FromInt(5)>>)

\* a total of about 1e-7 left by cancellation
NearlyCancelling == Named(<<FromInt(-5), FromInt(1), Dec(40000001, 7)>>)

Ninths == Named(<<Dec(1, 1), Dec(1, 1), Dec(7, 1)>>)

Thirds == Named(<<FromInt(1), FromInt(2)>>)

Partial == Named(<<Dec(333, 1), FromInt(20), Dec(125, 1)>>)

\* shares that add up to exactly 100
SevenAnd93 == Named(<<FromInt(7), FromInt(93)>>)

\* 9.8 and 90.19999999999999 (the double below 90.2); 0.1, 64.1 and 35.8,
\* whose sum as floats is 99.99999999999999
NearlyFull == Named(<<Dec(98, 1), DSub(Dec(902, 1), Pow2(-46))>>)

TenthsBelow100 == Named(<<Dec(1, 1), Dec(641, 1), Dec(358, 1)>>)

\* names not in the order of the form
Permuted == <<Entry("Zeta", FromInt(30)), Entry("Alpha", FromInt(70))>>

FixedShareSets ==
  {TestShares, Monopoly, Quartiles, TenthsTo100, JustOver100, ClearlyOver100,
   NegativeAndOver, NegativeTotal, Cancelling, NearlyCancelling, Ninths, Thirds, Partial,
   SevenAnd93, Permuted, NearlyFull, TenthsBelow100}

ShareSets == FixedShareSets \cup {Named(v) : v \in GridShareSets}

\* index values around the band boundaries, and the whole range in steps of 500
HhiValues ==
  {Dec(1499999, 3), Dec(15000001, 4), Dec(2499999, 3), Dec(25000001, 4)}
    \cup {FromInt(500 * k) : k \in 0..20}

(***************************************************************************)
(* Direct calls of the functions of utils/charts.py.                       *)
(***************************************************************************)
NoInterpretation == [band |-> "", description |-> "", color |-> "", hhi_value |-> Zero]

\* Optional[float]: None, or a float
None == [is_none |-> TRUE, value |-> Zero]
Some(x) == [is_none |-> FALSE, value |-> x]

\* Faulty variant: a live rate is used even when a manual rate is given.
convert_currency_live_first(amount, base, target, override_rate, live) ==
  IF base = target THEN [ret |-> Some(amount), looked_up |-> FALSE]
  ELSE IF ~live.is_none
       THEN [ret |-> Some(FloatMul(amount, live.value)), looked_up |-> TRUE]
       ELSE IF ~override_rate.is_none
            THEN [ret |-> Some(FloatMul(amount, override_rate.value)), looked_up |-> TRUE]
            ELSE [ret |-> None, looked_up |-> TRUE]

\* utils/currency.py convert_currency.  live: what get_exchange_rate(base,
\* target) returns when it is called (None when the lookup fails; it catches
\* its exceptions); looked_up: get_exchange_rate was called.
convert_currency(amount, base, target, override_rate, live) ==
  IF base = target THEN [ret |-> Some(amount), looked_up |-> FALSE]
  ELSE IF ~override_rate.is_none
       THEN [ret |-> Some(FloatMul(amount, override_rate.value)), looked_up |-> FALSE]
       ELSE IF ~live.is_none
            THEN [ret |-> Some(FloatMul(amount, live.value)), looked_up |-> TRUE]
            ELSE [ret |-> None, looked_up |-> TRUE]

\* arguments of convert_currency
Amounts == {Zero, Dec(5, 1), FromInt(1000)}
Currencies == {"TRY", "EUR", "USD"}
OverrideRates == {None, Some(Dec(11, 1)), Some(FromInt(35))}
LiveRates == {None, Some(Dec(365, 1))}

\* utils/charts.py create_hhi_concentration_chart: the ends of the three
\* bars and of the x axis
ChartLowEnd == 1500
ChartModerateEnd == 2500
ChartHighEnd == 5000
ChartXMax == 5000

Band(start, end, label) == [start |-> start, end |-> end, label |-> label]

NoChart == [bands |-> <<>>, marker |-> Zero, xlim |-> <<0, 0>>]

\* what create_hhi_concentration_chart draws: the bars, the dashed line at
\* hhi_value and the range of the x axis
create_hhi_concentration_chart(hhi_value) ==
  [bands |-> <<Band(0, ChartLowEnd, "Low"),
               Band(ChartLowEnd, ChartModerateEnd, "Moderate"),
               Band(ChartModerateEnd, ChartHighEnd, "High")>>,
   marker |-> hhi_value,
   xlim |-> <<0, ChartXMax>>]

NoCall ==
  [fn |-> "", market_shares |-> <<>>, hhi_value |-> Zero, after |-> <<>>,
   raised |-> FALSE, ret_number |-> Zero, ret_shares |-> <<>>,
   ret_valid |-> FALSE, ret_message |-> NoMessage, ret_interp |-> NoInterpretation,
   amount |-> Zero, base |-> "", target |-> "", override_rate |-> None,
   live |-> None, ret_amount |-> None, looked_up |-> FALSE, ret_chart |-> NoChart,
   limit |-> 0, ret_recent |-> <<>>]


(***************************************************************************)
(* pages/02_HHI_Calculator_and_Visualizer.py: calculate_hhi_and_visualize. *)
(* The charts draw images and keep no state; they are not modelled.        *)
(***************************************************************************)
\* the most records the runs of the page append to the history file
MaxHistory == 1

\* str.title() of the strings the page passes to it
Title(str) ==
  CASE str = "Low concentration"      -> "Low Concentration"
    [] str = "Moderate concentration" -> "Moderate Concentration"
    [] str = "High concentration"     -> "High Concentration"
    [] str = "low"                    -> "Low"
    [] str = "moderate"               -> "Moderate"
    [] str = "medium"                 -> "Medium"
    [] str = "high"                   -> "High"
    [] OTHER                          -> str

\* Faulty variant: the squared fraction is not scaled to index points.
ContributionToHhi_unscaled(share) == SquaredShare(share)

\* (share/100)**2 * 10000
ContributionToHhi(share) == FloatMul(SquaredShare(share), FromInt(10000))

\* a row of the "Market Shares" table: the strings, as the digits they show
SharesDataRow(entry) ==
  [Firm         |-> entry.firm,
   MarketShare  |-> FormatFixed(entry.share, 1),
   SquaredShare |-> FormatFixed(SquaredShare(entry.share), 4),
   Contribution |-> FormatFixed(ContributionToHhi(entry.share), 0)]

\* Faulty variant: the percentage is squared without the division by 100.
ExportRow_percent(entry) ==
  <<entry.firm, entry.share, FloatSquare(entry.share),
    FloatMul(FloatSquare(entry.share), FromInt(10000))>>

\* a row of export_data["shares"]
ExportRow(entry) ==
  <<entry.firm, entry.share, SquaredShare(entry.share), ContributionToHhi(entry.share)>>

NoSummary ==
  [HhiValue |-> Zero, ConcentrationLevel |-> "", InterpretationBand |-> "",
   NumberOfFirms |-> 0, TotalMarketShare |-> Zero, CalculationDate |-> 0]

NoUi ==
  [phase |-> "idle", submitted |-> <<>>, normalize_shares |-> FALSE,
   error_message |-> NoMessage, info_original_sum |-> <<>>,
   hhi_card |-> 0, level_card |-> "", band_card |-> "", total_card |-> 0,
   firms_card |-> 0, banner |-> "", shares_data |-> <<>>,
   export_shares |-> <<>>, summary |-> NoSummary, interpretation_text |-> <<>>,
   pdf_data |-> FALSE, csv_data |-> FALSE, csv_error |-> FALSE,
   csv_shares |-> <<>>, export_bar |-> FALSE, save_error |-> FALSE,
   form |-> <<>>]

\* A history file: a JSON list of records, or content json.load rejects
JsonList(records) == [is_list |-> TRUE, records |-> records]

Unreadable == [is_list |-> FALSE, records |-> <<>>]

\* The sessions of the application that may be inside save_history at once,
\* and the calls of save_history followed.
MaxWriters == 2
MaxSaves == 3
Writers == 1..MaxWriters

\* a Python set, which json.dump cannot encode
NotJson == "set()"

\* test_app.py test_storage: the payload {"test": ..., "timestamp": ...}
TestData(v) == [test |-> v, timestamp |-> 0]

\* a session outside save_history
NoSave == [pc |-> "idle", payload |-> TestData(""), existing_data |-> <<>>, ret |-> FALSE]

NoSaves == [sessions |-> 0, begun |-> 0, proc |-> [p \in Writers |-> NoSave]]

\* utils/storage.py load_history: [] for a file that is no JSON list
load_history(file) == IF file.is_list THEN file.records ELSE <<>>

\* Faulty variant: the file is written with the new payload alone.
save_history_replacing(file, payload, now, disk) ==
  IF disk = "ok"
  THEN [ok |-> TRUE, file |-> JsonList(<<[payload EXCEPT !.timestamp = now]>>)]
  ELSE IF disk = "torn" THEN [ok |-> FALSE, file |-> Unreadable]
  ELSE [ok |-> FALSE, file |-> file]

\* utils/storage.py save_history: the file after the call and the value
\* returned.  disk: "ok"; "unwritable", open() raises and the file is as it
\* was; "torn", open(filepath, 'w') has emptied the file and json.dump raises
\* before the list is written out.
save_history(file, payload, now, disk) ==
  IF disk = "ok"
  THEN [ok |-> TRUE,
        file |-> JsonList(Append(load_history(file), [payload EXCEPT !.timestamp = now]))]
  ELSE IF disk = "torn" THEN [ok |-> FALSE, file |-> Unreadable]
  ELSE [ok |-> FALSE, file |-> file]

save_calculation_result(file, module_name, inputs, result, now, disk) ==
  save_history(file,
               [module |-> module_name, inputs |-> inputs, result |-> result,
                timestamp |-> now],
               now, disk)

\* Faulty variant: the records are sorted from oldest to newest.
NewestFirst_ascending(sorted_history, record) ==
  LET older == {i \in 1..Len(sorted_history) : sorted_history[i].timestamp <= record.timestamp}
  IN  SubSeq(sorted_history, 1, Cardinality(older)) \o <<record>>
        \o SubSeq(sorted_history, Cardinality(older) + 1, Len(sorted_history))

\* sorted(..., reverse=True) places a record behind the records of the same
\* or a later timestamp that precede it in the list (the sort is stable).
\* The timestamps are the strings of datetime.isoformat(), whose order as
\* strings is the order of the times; they are modelled as numbers.
NewestFirst(sorted_history, record) ==
  LET newer == {i \in 1..Len(sorted_history) : sorted_history[i].timestamp >= record.timestamp}
  IN  SubSeq(sorted_history, 1, Cardinality(newer)) \o <<record>>
        \o SubSeq(sorted_history, Cardinality(newer) + 1, Len(sorted_history))

\* line 289: sorted(history, key=timestamp, reverse=True)
RECURSIVE SortedFrom(_, _, _)
SortedFrom(records, i, sorted_history) ==
  IF sorted_history = <<>> /\ i > Len(records) THEN <<>>
  ELSE IF i > Len(records) THEN sorted_history
  ELSE SortedFrom(records, i + 1, NewestFirst(sorted_history, records[i]))

\* list[:limit] of Python: a negative limit counts from the end
SliceTo(list, limit) ==
  IF limit >= Len(list) THEN list
  ELSE IF limit >= 0 THEN SubSeq(list, 1, limit)
  ELSE IF Len(list) + limit <= 0 THEN <<>>
  ELSE SubSeq(list, 1, Len(list) + limit)

\* utils/storage.py get_recent_calculations
get_recent_calculations(file, limit) ==
  SliceTo(SortedFrom(load_history(file), 1, <<>>), limit)

\* what the collaborators of one run do: generate_hhi_report returns bytes
\* (pdf_ok) or None, create_csv_from_shares returns the text (csv_ok) or "",
\* and the disk
Worlds == [pdf_ok : BOOLEAN, csv_ok : BOOLEAN, disk : {"ok", "unwritable", "torn"}]

Shown(submitted, normalize_shares) ==
  [NoUi EXCEPT !.submitted = submitted, !.normalize_shares = normalize_shares]

\* Faulty variant: a report that cannot be generated ends the run in the
\* except branch, before the history is saved.
ExportAndSave_aborting(rendered, world, saved) ==
  IF ~world.pdf_ok
  THEN [ui |-> [Shown(rendered.ui.submitted, rendered.ui.normalize_shares) EXCEPT
                  !.phase = "exception",
                  !.error_message = Message("Error during calculation: {e}", <<>>, <<>>)],
        history |-> history]
  ELSE [ui |-> [rendered.ui EXCEPT
                  !.pdf_data = TRUE,
                  !.csv_data = world.csv_ok,
                  !.csv_error = ~world.csv_ok,
                  !.export_bar = TRUE,
                  !.save_error = ~saved.ok],
        history |-> saved.file]

\* lines 297-320: the exports, the export bar and the history record
ExportAndSave(rendered, world, saved) ==
  [ui |-> [rendered.ui EXCEPT
             !.pdf_data = world.pdf_ok,
             !.csv_data = world.csv_ok,
             !.csv_error = ~world.csv_ok,
             !.csv_shares = IF world.csv_ok THEN rendered.market_shares ELSE <<>>,
             !.export_bar = world.pdf_ok \/ world.csv_ok,
             !.save_error = ~saved.ok],
   history |-> saved.file]

Export(file, rendered, now, world) ==
  ExportAndSave(rendered, world,
                save_calculation_result(
                  file, "hhi_calculator",
                  [market_shares |-> rendered.market_shares,
                   normalize_shares |-> rendered.ui.normalize_shares,
                   num_firms |-> Len(rendered.market_shares)],
                  rendered.ui.summary, now, world.disk))

\* the run stopped before the results: nothing to export
Stopped(shown) == [ui |-> shown, market_shares |-> <<>>]

\* lines 155-227: the metric cards, the banner and the table
Render(submitted, normalize_shares, market_shares, hhi_value, interpretation, total_share, now) ==
  [ui |-> [Shown(submitted, normalize_shares) EXCEPT
            !.phase = "done",
            !.info_original_sum =
               IF normalize_shares
               THEN <<FormatFixed(PySum(Values(submitted)), 1)>> ELSE <<>>,
            !.hhi_card = FormatFixed(hhi_value, 0),
            !.level_card = Title(interpretation.description),
            !.band_card = Title(interpretation.band),
            !.total_card = FormatFixed(total_share, 1),
            !.firms_card = Len(market_shares),
            !.banner = Title(interpretation.description),
            !.shares_data =
               [i \in 1..Len(market_shares) |-> SharesDataRow(market_shares[i])],
            !.interpretation_text =
               <<FormatFixed(hhi_value, 0), interpretation.description>>,
            \* lines 276-295: export_data
            !.export_shares =
               [i \in 1..Len(market_shares) |-> ExportRow(market_shares[i])],
            !.summary =
               [HhiValue           |-> hhi_value,
                ConcentrationLevel |-> interpretation.description,
                InterpretationBand |-> interpretation.band,
                NumberOfFirms      |-> Len(market_shares),
                TotalMarketShare   |-> total_share,
                CalculationDate    |-> now]],
   market_shares |-> market_shares]

Interpret(submitted, normalize_shares, market_shares, hhi_value, now) ==
  Render(submitted, normalize_shares, market_shares, hhi_value,
         get_hhi_interpretation(hhi_value), PySum(Values(market_shares)), now)

\* lines 151-153
Calculate(submitted, normalize_shares, market_shares, now) ==
  Interpret(submitted, normalize_shares, market_shares,
            calculate_hhi(market_shares), now)

\* lines 146-149; an exception is caught at line 322
Normalized(submitted, normalized, now) ==
  IF normalized.raised
  THEN Stopped([Shown(submitted, TRUE) EXCEPT
                  !.phase = "exception",
                  !.error_message = Message("Error during calculation: {e}", <<>>, <<>>)])
  ELSE Calculate(submitted, TRUE, normalized.value, now)

\* Faulty variant: the run goes on whatever the validator returned.
Validated_ignored(submitted, normalize_shares, checked, now) ==
  IF normalize_shares
  THEN Normalized(submitted, normalize_market_shares(submitted), now)
  ELSE Calculate(submitted, FALSE, submitted, now)

\* Faulty variant: the shares are normalized whatever the toggle says.
Validated_normalizing(submitted, normalize_shares, checked, now) ==
  IF ~checked.is_valid
  THEN Stopped([Shown(submitted, normalize_shares) EXCEPT
                  !.phase = "invalid",
                  !.error_message = checked.error_message])
  ELSE Calculate(submitted, normalize_shares, normalize_market_shares(submitted).value, now)

\* lines 139-143
Validated(submitted, normalize_shares, checked, now) ==
  IF ~checked.is_valid
  THEN Stopped([Shown(submitted, normalize_shares) EXCEPT
                  !.phase = "invalid",
                  !.error_message = checked.error_message])
  ELSE IF normalize_shares
  THEN Normalized(submitted, normalize_market_shares(submitted), now)
  ELSE Calculate(submitted, FALSE, submitted, now)

\* lines 137-295: what the run has rendered when it reaches the exports, or
\* when it stops before
Rendered(submitted, normalize_shares, now) ==
  Validated(submitted, normalize_shares, validate_market_shares(submitted), now)

\* lines 297-320, reached when the results were rendered
Exported(file, rendered, now, world) ==
  IF rendered.ui.phase = "done" THEN Export(file, rendered, now, world)
  ELSE [ui |-> rendered.ui, history |-> file]

\* What the page shows and stores for one submission.  now: the clock reading;
\* world: what the collaborators do.
calculate_hhi_and_visualize(submitted, normalize_shares, now, world) ==
  Exported(history, Rendered(submitted, normalize_shares, now), now, world)

(***************************************************************************)
(* pages/01_Merger_Threshold_Calculator.py                                 *)
(***************************************************************************)
\* utils/constants.py MERGER_THRESHOLDS["turkish"]
global_threshold == 500000000
local_threshold == 50000000

\* main: a party row with a name and an amount > 0
Party(name, currency, amount) == [name |-> name, currency |-> currency, amount |-> amount]

Millions(n) == FromInt(n * 1000000)

\* what get_exchange_rate(currency, "TRY") returns during the run
LiveLookups ==
  {[c \in Currencies |-> None],
   [c \in Currencies |-> IF c = "EUR" THEN Some(Dec(365, 1)) ELSE Some(FromInt(33))]}

IsConverted(party) == ~party.converted.is_none

\* lines 169-202: the parties whose conversion did not return None
ConvertedParties(parties, manual_rate, live) ==
  SelectSeq([i \in 1..Len(parties) |->
               [name |-> parties[i].name,
                original_turnover |-> parties[i].amount,
                original_currency |-> parties[i].currency,
                converted |-> convert_currency(parties[i].amount, parties[i].currency, "TRY",
                                               manual_rate, live[parties[i].currency]).ret]],
            IsConverted)

\* party["converted_turnover"] for party in converted
ConvertedTurnovers(converted) ==
  AsTuple([i \in 1..Len(converted) |-> converted[i].converted.value])

\* lines 266-284: a row of all_parties
AllPartiesRow(party, type) ==
  ("Party" :> party.name) @@ ("Type" :> type)
    @@ ("Original Amount" :> party.original_turnover)
    @@ ("Converted Amount" :> party.converted.value)

\* all_parties: the buyers, then the targets
AllParties(converted_buyers, converted_targets) ==
  [i \in 1..Len(converted_buyers) |-> AllPartiesRow(converted_buyers[i], "Buyer")]
    \o [i \in 1..Len(converted_targets) |-> AllPartiesRow(converted_targets[i], "Target")]

\* lines 319-322: the keys the export reads from each row of all_parties
ExportKeys == {"name", "type", "original_amount", "converted_amount"}

\* The exception that building export_data raises, "" for none: all_parties
\* is assigned only when a party was converted, and its rows are read by
\* the keys above.
ExportDataRaises(all_parties_assigned, all_parties) ==
  IF ~all_parties_assigned THEN "NameError"
  ELSE IF \E i \in 1..Len(all_parties) : ~(ExportKeys \subseteq DOMAIN all_parties[i])
       THEN "KeyError"
       ELSE ""

NoMergerSummary ==
  [is_notifiable |-> FALSE, global_met |-> FALSE, local_met |-> FALSE,
   total_combined_turnover |-> Zero]

NoMerger ==
  [phase |-> "idle", buyer_parties |-> <<>>, target_parties |-> <<>>,
   manual_rate |-> None, show_advanced |-> FALSE,
   converted_buyers |-> <<>>, converted_targets |-> <<>>,
   total_buyer_turnover |-> Zero, total_target_turnover |-> Zero,
   total_combined_turnover |-> Zero,
   global_met |-> FALSE, local_met |-> FALSE, is_notifiable |-> FALSE,
   verdict |-> "", all_parties |-> <<>>, advanced_details |-> FALSE,
   summary |-> NoMergerSummary, error |-> "",
   pdf_data |-> FALSE, csv_data |-> FALSE, export_bar |-> FALSE, save_error |-> FALSE]

\* gte(x, threshold): x >= threshold
AtLeast(x, threshold) == ~Less(x, FromInt(threshold))

\* lines 215-216
GlobalMet(total_combined_turnover) == AtLeast(total_combined_turnover, global_threshold)

LocalMet(total_buyer_turnover, total_target_turnover) ==
  AtLeast(total_buyer_turnover, local_threshold) \/ AtLeast(total_target_turnover, local_threshold)

\* lines 220-304: the metric cards, the verdict, the table, the details
MergerRendered(buyer_parties, target_parties, manual_rate, show_advanced, converted_buyers, converted_targets, total_buyer_turnover, total_target_turnover, total_combined_turnover, global_met, local_met) ==
  [NoMerger EXCEPT
     !.phase = "done",
     !.buyer_parties = buyer_parties,
     !.target_parties = target_parties,
     !.manual_rate = manual_rate,
     !.show_advanced = show_advanced,
     !.converted_buyers = converted_buyers,
     !.converted_targets = converted_targets,
     !.total_buyer_turnover = total_buyer_turnover,
     !.total_target_turnover = total_target_turnover,
     !.total_combined_turnover = total_combined_turnover,
     !.global_met = global_met,
     !.local_met = local_met,
     !.is_notifiable = global_met /\ local_met,
     !.verdict = IF global_met /\ local_met THEN "Likely Notifiable"
                 ELSE "Likely Not Notifiable",
     !.all_parties = AllParties(converted_buyers, converted_targets),
     !.advanced_details = show_advanced,
     !.summary = [is_notifiable |-> global_met /\ local_met,
                  global_met |-> global_met,
                  local_met |-> local_met,
                  total_combined_turnover |-> total_combined_turnover]]

\* lines 205-218: the totals and the two tests
MergerTested(buyer_parties, target_parties, manual_rate, show_advanced, converted_buyers, converted_targets, total_buyer_turnover, total_target_turnover, total_combined_turnover) ==
  MergerRendered(buyer_parties, target_parties, manual_rate, show_advanced,
                 converted_buyers, converted_targets,
                 total_buyer_turnover, total_target_turnover, total_combined_turnover,
                 GlobalMet(total_combined_turnover),
                 LocalMet(total_buyer_turnover, total_target_turnover))

MergerSummed(buyer_parties, target_parties, manual_rate, show_advanced, converted_buyers, converted_targets, total_buyer_turnover, total_target_turnover) ==
  MergerTested(buyer_parties, target_parties, manual_rate, show_advanced,
               converted_buyers, converted_targets,
               total_buyer_turnover, total_target_turnover,
               FloatAdd(total_buyer_turnover, total_target_turnover))

MergerConverted(buyer_parties, target_parties, manual_rate, show_advanced, converted_buyers, converted_targets) ==
  MergerSummed(buyer_parties, target_parties, manual_rate, show_advanced,
               converted_buyers, converted_targets,
               PySum(ConvertedTurnovers(converted_buyers)),
               PySum(ConvertedTurnovers(converted_targets)))

\* lines 306-365: export_data, the report, the CSV text, the history record,
\* the except branch and the export bar
MergerExported(file, shown, raises, now, world, saved) ==
  IF raises # ""
  THEN [merger |-> [shown EXCEPT !.phase = "exception", !.error = raises],
        history |-> file]
  ELSE [merger |-> [shown EXCEPT !.pdf_data = world.pdf_ok,
                                 !.csv_data = TRUE,
                                 !.export_bar = TRUE,
                                 !.save_error = ~saved.ok],
        history |-> saved.file]

MergerExport(file, shown, now, world) ==
  MergerExported(file, shown,
                 ExportDataRaises(Len(shown.converted_buyers) + Len(shown.converted_targets) > 0,
                                  shown.all_parties),
                 now, world,
                 save_calculation_result(
                   file, "merger_calculator",
                   [buyer_parties |-> shown.buyer_parties,
                    target_parties |-> shown.target_parties],
                   shown.summary, now, world.disk))

\* What the page shows and stores for one press of "Calculate Thresholds".
calculate_merger_thresholds(file, buyer_parties, target_parties, manual_rate, live, show_advanced, now, world) ==
  MergerExport(file,
               MergerConverted(buyer_parties, target_parties, manual_rate, show_advanced,
                               ConvertedParties(buyer_parties, manual_rate, live),
                               ConvertedParties(target_parties, manual_rate, live)),
               now, world)

\* the parties entered in the form (at most 10 buyers and 10 targets)
MaxParties == 10
PartyName(i) ==
  <<"Party 1", "Party 2", "Party 3", "Party 4", "Party 5", "Party 6", "Party 7",
    "Party 8", "Party 9", "Party 10">>[i]

Parties(n, currency, amount) == [i \in 1..n |-> Party(PartyName(i), currency, amount)]

MergerCases ==
  {[buyers |-> <<>>, targets |-> <<>>],
   [buyers |-> Parties(1, "TRY", Millions(600)), targets |-> Parties(1, "TRY", Millions(60))],
   [buyers |-> Parties(1, "TRY", Millions(100)), targets |-> Parties(1, "TRY", Millions(10))],
   [buyers |-> Parties(1, "TRY", Millions(500)), targets |-> <<>>],
   [buyers |-> Parties(1, "TRY", Millions(40)), targets |-> Parties(1, "TRY", Millions(460))],
   [buyers |-> Parties(MaxParties, "TRY", Millions(49)), targets |-> Parties(1, "TRY", Millions(10))],
   [buyers |-> Parties(2, "EUR", Millions(20)), targets |-> Parties(1, "USD", Millions(1))],
   [buyers |-> Parties(1, "EUR", Millions(1)), targets |-> Parties(1, "TRY", Millions(470))]}

(***************************************************************************)
(* pages/03_Compliance_Checklist.py: the checklist and its risk score.     *)
(***************************************************************************)
\* utils/constants.py COMPLIANCE_QUESTIONS: the ids and weights, in order
COMPLIANCE_QUESTIONS ==
  <<[id |-> "pricing_practices", weight |-> 3],
    [id |-> "market_sharing", weight |-> 3],
    [id |-> "bid_rigging", weight |-> 3],
    [id |-> "information_exchange", weight |-> 2],
    [id |-> "exclusive_dealing", weight |-> 2],
    [id |-> "tying_bundling", weight |-> 2],
    [id |-> "predatory_pricing", weight |-> 2],
    [id |-> "refusal_to_deal", weight |-> 1],
    [id |-> "discriminatory_pricing", weight |-> 1],
    [id |-> "resale_price_maintenance", weight |-> 2]>>

\* utils/constants.py COMPLIANCE_SCORING
ComplianceLowMax == 5
ComplianceMediumMax == 15

COMPLIANCE_SCORING ==
  [low    |-> [max_score |-> ComplianceLowMax, description |-> "Low risk - Continue monitoring"],
   medium |-> [max_score |-> ComplianceMediumMax, description |-> "Medium risk - Review practices"],
   high   |-> [description |-> "High risk - Seek legal counsel"]]

\* the options of each selectbox; "No" is the preselected one
ResponseOptions == {"No", "Sometimes", "Yes"}

\* the most questions answered other than "No" in the checklists followed
\* (next to the checklists answered alike throughout)
MaxAnswered == 2

\* lines 113-118: the points of one answer
Points(response, weight) ==
  IF response = "Yes" THEN FromInt(weight)
  ELSE IF response = "Sometimes" THEN FloatMul(FromInt(weight), Dec(5, 1))
  ELSE Zero

\* lines 104-120: total_score += points, question after question
RECURSIVE TotalScoreFrom(_, _, _)
TotalScoreFrom(responses, i, total_score) ==
  IF total_score.s = 0 /\ i > Len(responses) THEN Zero
  ELSE IF i > Len(responses) THEN total_score
  ELSE TotalScoreFrom(responses, i + 1,
                      FloatAdd(total_score, Points(responses[i], COMPLIANCE_QUESTIONS[i].weight)))

TotalScore(responses) == TotalScoreFrom(responses, 1, Zero)

\* lines 127-143: the first level of COMPLIANCE_SCORING the score fits
ComplianceRiskLevel(total_score) ==
  IF LessEq(total_score, FromInt(COMPLIANCE_SCORING.low.max_score)) THEN "low"
  ELSE IF LessEq(total_score, FromInt(COMPLIANCE_SCORING.medium.max_score)) THEN "medium"
  ELSE "high"

\* lines 206-212: category_data; every question is a category of its own
CategoryRow(response, weight) ==
  [RiskScore |-> FormatFixed(Points(response, weight), 1),
   RiskLevel |-> IF Greater(Points(response, weight), FromInt(5)) THEN "High"
                 ELSE IF Greater(Points(response, weight), FromInt(2)) THEN "Medium"
                 ELSE "Low"]

\* lines 235-259: the list of recommendations, named by its first entry
ComplianceRecommendations(risk_level) ==
  IF risk_level = "high" THEN "Immediately consult with qualified competition law counsel"
  ELSE IF risk_level = "medium" THEN "Schedule consultation with competition law expert"
  ELSE "Continue current compliance practices"

NoCompliance ==
  [phase |-> "idle", responses |-> <<>>, total_score |-> Zero, risk_level |-> "",
   risk_description |-> "", score_card |-> 0, max_card |-> 0, level_card |-> "",
   banner |-> "", category_data |-> <<>>, recommendations |-> "",
   saved |-> <<>>]

\* sum(q['weight'] for q in COMPLIANCE_QUESTIONS)
RECURSIVE WeightsFrom(_)
WeightsFrom(i) ==
  IF i > Len(COMPLIANCE_QUESTIONS) THEN 0 ELSE COMPLIANCE_QUESTIONS[i].weight + WeightsFrom(i + 1)

\* lines 94-305: calculate_compliance_score, what it shows and saves
calculate_compliance_score(responses, total_score, risk_level) ==
  [phase |-> "results", responses |-> responses, total_score |-> total_score,
   risk_level |-> risk_level,
   risk_description |-> COMPLIANCE_SCORING[risk_level].description,
   score_card |-> FormatFixed(total_score, 1),
   max_card |-> WeightsFrom(1),
   level_card |-> Title(risk_level),
   banner |-> risk_level,
   category_data |-> AsTuple([i \in 1..Len(responses) |->
                                CategoryRow(responses[i], COMPLIANCE_QUESTIONS[i].weight)]),
   recommendations |-> ComplianceRecommendations(risk_level),
   saved |-> <<[TotalRiskScore |-> total_score, RiskLevel |-> risk_level,
                RiskDescription |-> COMPLIANCE_SCORING[risk_level].description,
                QuestionsAnswered |-> Len(responses)]>>]

\* The checklists followed: a few questions answered "Sometimes" or "Yes"
\* and the rest left at "No", or every question answered alike.
Checklist(answered, answers) ==
  [i \in 1..Len(COMPLIANCE_QUESTIONS) |-> IF i \in answered THEN answers[i] ELSE "No"]

AnsweredSets == {a \in SUBSET (1..Len(COMPLIANCE_QUESTIONS)) : Cardinality(a) <= MaxAnswered}

(***************************************************************************)
(* pages/04_Dominance_Risk_Checker.py: the risk factors and their score.   *)
(***************************************************************************)
\* the maximum the "Risk Score" card states (line 234)
DisplayedMax == 12

\* an entry of risk_factors and what it adds to total_risk_score
RiskFactor(factor, risk, added) == [factor |-> factor, risk |-> risk, added |-> added]

\* lines 150-159
MarketShareRisk(your_market_share) ==
  IF AtLeast(your_market_share, 50) THEN <<RiskFactor("Market Share", "High", 3)>>
  ELSE IF AtLeast(your_market_share, 30) THEN <<RiskFactor("Market Share", "Medium", 2)>>
  ELSE <<RiskFactor("Market Share", "Low", 1)>>

\* lines 161-171: only for an HHI above 0
HhiRisk(hhi_value) ==
  IF ~Greater(hhi_value, Zero) THEN <<>>
  ELSE IF AtLeast(hhi_value, 2500) THEN <<RiskFactor("Market Concentration (HHI)", "High", 3)>>
  ELSE IF AtLeast(hhi_value, 1500) THEN <<RiskFactor("Market Concentration (HHI)", "Medium", 2)>>
  ELSE <<RiskFactor("Market Concentration (HHI)", "Low", 1)>>

\* lines 173-184: only for a non-empty list of rivals; top_3_share = sum(rival_shares[:3])
RivalRisk(rival_shares, top_3_share) ==
  IF rival_shares = <<>> THEN <<>>
  ELSE IF AtLeast(top_3_share, 80) THEN <<RiskFactor("Rival Concentration", "High", 2)>>
  ELSE IF AtLeast(top_3_share, 60) THEN <<RiskFactor("Rival Concentration", "Medium", 1)>>
  ELSE <<RiskFactor("Rival Concentration", "Low", 0)>>

\* lines 186-200: a checkbox
PresenceRisk(factor, present) ==
  IF present THEN <<RiskFactor(factor, "Present", 2)>> ELSE <<RiskFactor(factor, "Absent", 0)>>

\* lines 202-211
EntryBarrierRisk(entry_barriers) ==
  IF entry_barriers = "High" THEN <<RiskFactor("Entry Barriers", "High", 2)>>
  ELSE IF entry_barriers = "Medium" THEN <<RiskFactor("Entry Barriers", "Medium", 1)>>
  ELSE <<RiskFactor("Entry Barriers", "Low", 0)>>

\* list[:n]
Slice(list, n) == SubSeq(list, 1, IF Len(list) < n THEN Len(list) ELSE n)

\* lines 146-211: risk_factors in the order of insertion
RiskFactors(your_market_share, rival_shares, hhi_value, vertical_integration, network_effects, entry_barriers) ==
  MarketShareRisk(your_market_share) \o HhiRisk(hhi_value)
    \o RivalRisk(rival_shares, PySum(Slice(rival_shares, 3)))
    \o PresenceRisk("Vertical Integration", vertical_integration)
    \o PresenceRisk("Network Effects", network_effects)
    \o EntryBarrierRisk(entry_barriers)

\* total_risk_score after the last += of lines 148-211
RECURSIVE AddedFrom(_, _)
AddedFrom(risk_factors, i) ==
  IF i > Len(risk_factors) THEN 0 ELSE risk_factors[i].added + AddedFrom(risk_factors, i + 1)

\* lines 213-222; the descriptions are named by their first words
DominanceRiskLevel(total_risk_score) ==
  IF total_risk_score >= 8 THEN [risk_level |-> "High", risk_description |-> "Significant dominance concerns"]
  ELSE IF total_risk_score >= 5 THEN [risk_level |-> "Medium", risk_description |-> "Moderate dominance concerns"]
  ELSE [risk_level |-> "Low", risk_description |-> "Low dominance concerns"]

\* lines 422-440
get_factor_score(factor, risk) ==
  IF risk \in {"High", "Present"} THEN 3
  ELSE IF risk \in {"Medium"} THEN 2
  ELSE IF risk \in {"Low", "Absent"} THEN 1
  ELSE 0

\* lines 343-368: the first entry of each list of recommendations
HighRiskList == "Immediately consult with qualified competition law counsel"
MediumRiskList == "Schedule consultation with competition law expert"
LowRiskList == "Continue monitoring market position"

\* lines 345-368: risk_level is compared with "high" and "medium" as written
DominanceRecommendations(risk_level) ==
  IF risk_level = "high" THEN HighRiskList
  ELSE IF risk_level = "medium" THEN MediumRiskList
  ELSE LowRiskList

NoDominance ==
  [phase |-> "idle", your_market_share |-> Zero, rival_shares |-> <<>>, hhi_value |-> Zero,
   vertical_integration |-> FALSE, network_effects |-> FALSE, entry_barriers |-> "",
   error_message |-> "", total_risk_score |-> 0, risk_level |-> "", risk_description |-> "",
   score_card |-> 0, max_card |-> 0, level_card |-> "", banner |-> "",
   factors_data |-> <<>>, recommendations |-> "", export_risk_factors |-> <<>>,
   export_recommendations |-> "", saved |-> <<>>]

\* lines 125-417: calculate_dominance_risk, what it shows, exports and saves
calculate_dominance_risk(your_market_share, rival_shares, hhi_value, vertical_integration, network_effects, entry_barriers, risk_factors, total_risk_score, level) ==
  [phase |-> "results", your_market_share |-> your_market_share,
   rival_shares |-> rival_shares, hhi_value |-> hhi_value,
   vertical_integration |-> vertical_integration, network_effects |-> network_effects,
   entry_barriers |-> entry_barriers, error_message |-> "",
   total_risk_score |-> total_risk_score,
   risk_level |-> level.risk_level, risk_description |-> level.risk_description,
   score_card |-> total_risk_score, max_card |-> DisplayedMax,
   level_card |-> Title(level.risk_level), banner |-> level.risk_level,
   factors_data |-> AsTuple([i \in 1..Len(risk_factors) |->
                      [RiskFactor |-> risk_factors[i].factor, RiskLevel |-> risk_factors[i].risk,
                       Score |-> get_factor_score(risk_factors[i].factor, risk_factors[i].risk)]]),
   recommendations |-> DominanceRecommendations(level.risk_level),
   export_risk_factors |-> AsTuple([i \in 1..Len(risk_factors) |->
                      <<risk_factors[i].factor, risk_factors[i].risk,
                        get_factor_score(risk_factors[i].factor, risk_factors[i].risk)>>]),
   export_recommendations |-> DominanceRecommendations(level.risk_level),
   saved |-> <<[RiskScore |-> total_risk_score, RiskLevel |-> level.risk_level,
                RiskDescription |-> level.risk_description,
                YourMarketShare |-> your_market_share]>>]

\* The values entered in the number inputs (0 is the empty rival or HHI field).
OwnShares == {Zero, FromInt(25), FromInt(30), FromInt(50), FromInt(100)}
RivalInputs == {Zero, FromInt(30), FromInt(40)}
HhiInputs == {Zero, FromInt(1000), FromInt(1500), FromInt(2500), FromInt(10000)}

\* lines 85-98: the rival fields above 0, in the order of the fields
RECURSIVE RivalsFrom(_, _, _)
RivalsFrom(fields, i, rival_shares) ==
  IF rival_shares = <<>> /\ i > Len(fields) THEN <<>>
  ELSE IF i > Len(fields) THEN rival_shares
  ELSE RivalsFrom(fields, i + 1,
                  IF Greater(fields[i], Zero) THEN Append(rival_shares, fields[i])
                  ELSE rival_shares)

(***************************************************************************)
(* pages/01_Merger_Threshold_Calculator.py party_row: the widgets of one   *)
(* party and the entries of st.session_state behind them.                  *)
(***************************************************************************)
\* the runs of the script followed
MaxRuns == 3

\* round(x, 2) of a float that is not negative: the nearest number with two
\* decimals (ties to even), as a float
Round2(x) == Dec(FormatFixed(x, 2), 2)

\* float(new_val or 0)
OrZero(new_val) == IF new_val.is_none THEN Zero ELSE new_val.value

\* utils/currency.py get_rate: what get_exchange_rate returns
get_rate(live) == live

\* utils/currency.py convert: the alias of convert_currency
convert(amount, base, target, override_rate, live) ==
  convert_currency(amount, base, target, override_rate, live).ret

\* st.session_state before the first run: none of the keys exists ("" for
\* the absent previous currency); prev_cur, amt, rate: the locals of the
\* last run; asked: get_rate was called in it
NoSession ==
  [runs |-> 0, prev_currency |-> "", currency |-> "TRY", amount |-> Zero,
   prev_cur |-> "", amt |-> Zero, rate |-> None, asked |-> FALSE]

\* what the user types into the turnover field, and what the rate service
\* answers (None when it cannot be reached)
EnteredAmounts == {Zero, FromInt(1000), Dec(123456, 2)}
RowRates == {None, Some(Dec(365, 1)), Some(Dec(274, 4))}

\* lines 46-50: the amount stored after a change of currency.  The second
\* lookup inside convert_currency is answered from the cache of
\* get_exchange_rate, as the first.
Converted(amt, prev_cur, cur, rate) ==
  Round2(OrZero(convert(amt, prev_cur, cur, rate, rate)))

\* lines 36-53: one run of party_row with the widgets at cur and amt
party_row(state, prev_cur, cur, amt, live) ==
  IF prev_cur # cur /\ amt.s # 0
  THEN [runs |-> state.runs + 1, prev_currency |-> cur, currency |-> cur,
        amount |-> Converted(amt, prev_cur, cur, get_rate(live)),
        prev_cur |-> prev_cur, amt |-> amt, rate |-> get_rate(live), asked |-> TRUE]
  ELSE [runs |-> state.runs + 1, prev_currency |-> cur, currency |-> cur,
        amount |-> amt,
        prev_cur |-> prev_cur, amt |-> amt, rate |-> None, asked |-> FALSE]

Init ==
  /\ py_sum \in {"sequential", "compensated"}
  /\ call = NoCall
  /\ ui = NoUi
  /\ history = JsonList(<<>>)
  /\ saves = NoSaves
  /\ merger = NoMerger
  /\ compliance = NoCompliance
  /\ dominance = NoDominance
  /\ session_state = NoSession

\* The caller is between calls.
Idle ==
  /\ call = NoCall /\ ui = NoUi /\ merger = NoMerger
  /\ compliance = NoCompliance /\ dominance = NoDominance /\ session_state = NoSession

CallCalculateHhi(market_shares) ==
  /\ Idle
  /\ call' = [NoCall EXCEPT !.fn = "calculate_hhi",
                            !.market_shares = market_shares,
                            !.after = market_shares,
                            !.ret_number = calculate_hhi(market_shares)]
  /\ UNCHANGED <<py_sum, ui, history, saves, merger, compliance, dominance, session_state>>

InterpretationCall(hhi_value) ==
  [NoCall EXCEPT !.fn = "get_hhi_interpretation",
                 !.hhi_value = hhi_value,
                 !.ret_interp = get_hhi_interpretation(hhi_value)]

CallGetHhiInterpretation(hhi_value) ==
  /\ Idle
  /\ call' = InterpretationCall(hhi_value)
  /\ UNCHANGED <<py_sum, ui, history, saves, merger, compliance, dominance, session_state>>

\* the page: create_hhi_concentration_chart(hhi_value, ...)
CallCreateHhiConcentrationChart(hhi_value) ==
  /\ Idle
  /\ call' = [NoCall EXCEPT !.fn = "create_hhi_concentration_chart",
                            !.hhi_value = hhi_value,
                            !.ret_chart = create_hhi_concentration_chart(hhi_value)]
  /\ UNCHANGED <<py_sum, ui, history, saves, merger, compliance, dominance, session_state>>

CallValidateMarketShares(market_shares) ==
  /\ Idle
  /\ LET r == validate_market_shares(market_shares)
     IN  call' = [NoCall EXCEPT !.fn = "validate_market_shares",
                                !.market_shares = market_shares,
                                !.after = market_shares,
                                !.ret_valid = r.is_valid,
                                !.ret_message = r.error_message]
  /\ UNCHANGED <<py_sum, ui, history, saves, merger, compliance, dominance, session_state>>

\* No statement of normalize_market_shares writes to its argument.
CallNormalizeMarketShares(market_shares) ==
  /\ Idle
  /\ LET r == normalize_market_shares(market_shares)
     IN  call' = [NoCall EXCEPT !.fn = "normalize_market_shares",
                                !.market_shares = market_shares,
                                !.after = market_shares,
                                !.raised = r.raised,
                                !.ret_shares = r.value]
  /\ UNCHANGED <<py_sum, ui, history, saves, merger, compliance, dominance, session_state>>

\* test_app.py: converted = convert_currency(1000, "EUR", "TRY", override_rate=1.1)
CallConvertCurrency(amount, base, target, override_rate, live) ==
  /\ Idle
  /\ \E r \in {convert_currency(amount, base, target, override_rate, live)} :
       call' = [NoCall EXCEPT !.fn = "convert_currency",
                              !.amount = amount,
                              !.base = base,
                              !.target = target,
                              !.override_rate = override_rate,
                              !.live = live,
                              !.ret_amount = r.ret,
                              !.looked_up = r.looked_up]
  /\ UNCHANGED <<py_sum, ui, history, saves, merger, compliance, dominance, session_state>>

\* test_app.py: calculate_hhi, then get_hhi_interpretation of its result
CallInterpretationOfResult ==
  /\ call.fn = "calculate_hhi"
  /\ call' = InterpretationCall(call.ret_number)
  /\ UNCHANGED <<py_sum, ui, history, saves, merger, compliance, dominance, session_state>>

\* The caller takes the result and is ready for the next call.
Return ==
  /\ call # NoCall
  /\ call' = NoCall
  /\ UNCHANGED <<py_sum, ui, history, saves, merger, compliance, dominance, session_state>>

Next ==
  \/ \E market_shares \in ShareSets : CallCalculateHhi(market_shares)
  \/ \E hhi_value \in HhiValues : CallGetHhiInterpretation(hhi_value)
  \/ CallInterpretationOfResult
  \/ \E hhi_value \in HhiValues : CallCreateHhiConcentrationChart(hhi_value)
  \/ \E market_shares \in ShareSets : CallValidateMarketShares(market_shares)
  \/ \E market_shares \in ShareSets : CallNormalizeMarketShares(market_shares)
  \/ \E amount \in Amounts, base \in Currencies, target \in Currencies,
        override_rate \in OverrideRates, live \in LiveRates :
          CallConvertCurrency(amount, base, target, override_rate, live)
  \/ Return

Spec == Init /\ [][Next]_vars

(***************************************************************************)
(* The HHI page: submissions of the form, one at a time.                   *)
(***************************************************************************)
\* a record an earlier run of the page has stored
PriorRecord ==
  Export(JsonList(<<>>), Rendered(Monopoly, FALSE, 0), 0,
         [pdf_ok |-> TRUE, csv_ok |-> TRUE, disk |-> "ok"]).history.records[1]

\* what the history file holds when the page is opened (a missing file reads
\* as the empty list)
PriorFiles == {JsonList(<<>>), JsonList(<<PriorRecord>>), Unreadable}

InitPage ==
  /\ py_sum \in {"sequential", "compensated"}
  /\ call = NoCall
  /\ ui = NoUi
  /\ history \in PriorFiles
  /\ saves = NoSaves
  /\ merger = NoMerger
  /\ compliance = NoCompliance
  /\ dominance = NoDominance
  /\ session_state = NoSession

\* the records the runs of the page have appended
Appended(file) == {i \in 1..Len(file.records) : file.records[i].timestamp > 0}

\* the clock reading of the next run
Now(file) == Len(file.records) + 1

\* the "Calculate HHI" button with these shares in the form
CalculateHhiAndVisualize(market_shares, normalize_shares) ==
  /\ Idle
  /\ Cardinality(Appended(history)) < MaxHistory
  /\ \E rendered \in {Rendered(market_shares, normalize_shares, Now(history))} :
       \E world \in Worlds :
         \E r \in {Exported(history, rendered, Now(history), world)} :
           /\ ui' = r.ui
           /\ history' = r.history
  /\ UNCHANGED <<py_sum, call, saves, merger, compliance, dominance, session_state>>

\* The page is run again: what the last run rendered is gone.
Rerun ==
  /\ ui # NoUi
  /\ ui' = NoUi
  /\ UNCHANGED <<py_sum, call, history, saves, merger, compliance, dominance, session_state>>

NextPage ==
  \/ \E market_shares \in ShareSets, normalize_shares \in BOOLEAN :
        CalculateHhiAndVisualize(market_shares, normalize_shares)
  \/ Rerun

SpecPage == InitPage /\ [][NextPage]_vars

(***************************************************************************)
(* The form of the HHI page: the rows of firm names and shares, and the    *)
(* "Calculate HHI" button.                                                 *)
(***************************************************************************)
\* the rows of the form followed
MaxRows == 3

Row(firm_name, market_share) == [firm_name |-> firm_name, market_share |-> market_share]

FormRows ==
  UNION {[1..n -> {Row(name, share) : name \in {"", "Firm 1", "Firm 2"},
                                      share \in {Zero, FromInt(40), FromInt(60)}}]
           : n \in 2..MaxRows}

\* market_shares[firm_name] = market_share: the value of a key already in
\* the mapping is replaced where it stands
Assign(market_shares, firm_name, market_share) ==
  IF \E j \in 1..Len(market_shares) : market_shares[j].firm = firm_name
  THEN AsTuple([j \in 1..Len(market_shares) |->
                  IF market_shares[j].firm = firm_name THEN Entry(firm_name, market_share)
                  ELSE market_shares[j]])
  ELSE Append(market_shares, Entry(firm_name, market_share))

\* Faulty variant: a row with a share of 0 is kept.
FormEntry_keeping_zero(market_shares, row) ==
  IF row.firm_name # ""
  THEN Assign(market_shares, row.firm_name, row.market_share)
  ELSE market_shares

\* lines 109-110: if firm_name and market_share > 0
FormEntry(market_shares, row) ==
  IF row.firm_name # "" /\ Greater(row.market_share, Zero)
  THEN Assign(market_shares, row.firm_name, row.market_share)
  ELSE market_shares

RECURSIVE FormSharesFrom(_, _, _)
FormSharesFrom(rows, i, market_shares) ==
  IF market_shares = <<>> /\ i > Len(rows) THEN <<>>
  ELSE IF i > Len(rows) THEN market_shares
  ELSE FormSharesFrom(rows, i + 1, FormEntry(market_shares, rows[i]))

\* lines 86-110: market_shares as the loop over the rows leaves it
FormShares(rows) == FormSharesFrom(rows, 1, <<>>)

\* lines 113-115: fewer than 2 entries
TooFew(rows) ==
  [NoUi EXCEPT
     !.form = rows,
     !.phase = "too_few",
     !.error_message =
        Message("Please enter at least 2 firms with market share data.", <<>>, <<>>)]

\* lines 112-118: the button with these rows in the form
SubmitForm(rows, normalize_shares) ==
  /\ Idle
  /\ Cardinality(Appended(history)) < MaxHistory
  /\ \E market_shares \in {FormShares(rows)} :
       IF Len(market_shares) < 2
       THEN /\ ui' = TooFew(rows)
            /\ history' = history
       ELSE \E rendered \in {Rendered(market_shares, normalize_shares, Now(history))} :
              \E world \in Worlds :
                \E r \in {Exported(history, rendered, Now(history), world)} :
                  /\ ui' = [r.ui EXCEPT !.form = rows]
                  /\ history' = r.history
  /\ UNCHANGED <<py_sum, call, saves, merger, compliance, dominance, session_state>>

NextForm ==
  \/ \E rows \in FormRows, normalize_shares \in BOOLEAN : SubmitForm(rows, normalize_shares)
  \/ Rerun

SpecForm == InitPage /\ [][NextForm]_vars

(***************************************************************************)
(* utils/storage.py save_history, statement by statement, called by the    *)
(* sessions of the application on the history file of one module.          *)
(***************************************************************************)
StoredFiles == {JsonList(<<>>), JsonList(<<TestData("old")>>), Unreadable}

InitStorage ==
  /\ py_sum \in {"sequential", "compensated"}
  /\ call = NoCall
  /\ ui = NoUi
  /\ history \in StoredFiles
  /\ saves \in {[NoSaves EXCEPT !.sessions = n] : n \in Writers}
  /\ merger = NoMerger
  /\ compliance = NoCompliance
  /\ dominance = NoDominance
  /\ session_state = NoSession

\* json.dump can encode every record of the list
Serializable(records) == \A i \in 1..Len(records) : records[i].test # NotJson

\* The file after a session has written its text from the start of the file
\* and closed it: a longer text that another session wrote since this one
\* opened the file keeps its tail, and the whole is no JSON document.
Overwritten(file, records) ==
  IF Len(file.records) > Len(records) THEN Unreadable ELSE JsonList(records)

\* line 58: the call is entered and the payload stamped with the clock
SaveHistoryCall(p, v) ==
  /\ p <= saves.sessions
  /\ saves.begun < MaxSaves
  /\ saves.proc[p].pc = "idle"
  /\ saves' = [saves EXCEPT
                 !.begun = @ + 1,
                 !.proc[p] = [NoSave EXCEPT
                                !.pc = "stamped",
                                !.payload = [TestData(v) EXCEPT !.timestamp = saves.begun + 1]]]
  /\ UNCHANGED <<py_sum, call, ui, history, merger, compliance, dominance, session_state>>

\* lines 61-62: existing_data = load_history(module_name), then the append
SaveHistoryLoad(p) ==
  /\ saves.proc[p].pc = "stamped"
  /\ saves' = [saves EXCEPT
                 !.proc[p].pc = "loaded",
                 !.proc[p].existing_data = Append(load_history(history), saves.proc[p].payload)]
  /\ UNCHANGED <<py_sum, call, ui, history, merger, compliance, dominance, session_state>>

\* line 65: open(filepath, 'w') empties the file, or raises and the except
\* branch returns False
SaveHistoryOpen(p, writable) ==
  /\ saves.proc[p].pc = "loaded"
  /\ IF writable
     THEN /\ history' = Unreadable
          /\ saves' = [saves EXCEPT !.proc[p].pc = "opened"]
     ELSE /\ history' = history
          /\ saves' = [saves EXCEPT !.proc[p].pc = "returned", !.proc[p].ret = FALSE]
  /\ UNCHANGED <<py_sum, call, ui, merger, compliance, dominance, session_state>>

\* lines 66-72: json.dump and the end of the with block; True, or False when
\* json.dump raised and left the file without a JSON document
SaveHistoryDump(p) ==
  /\ saves.proc[p].pc = "opened"
  /\ IF Serializable(saves.proc[p].existing_data)
     THEN /\ history' = Overwritten(history, saves.proc[p].existing_data)
          /\ saves' = [saves EXCEPT !.proc[p].pc = "returned", !.proc[p].ret = TRUE]
     ELSE /\ history' = Unreadable
          /\ saves' = [saves EXCEPT !.proc[p].pc = "returned", !.proc[p].ret = FALSE]
  /\ UNCHANGED <<py_sum, call, ui, merger, compliance, dominance, session_state>>

\* The caller takes the result.
SaveHistoryReturn(p) ==
  /\ saves.proc[p].pc = "returned"
  /\ saves' = [saves EXCEPT !.proc[p] = NoSave]
  /\ UNCHANGED <<py_sum, call, ui, history, merger, compliance, dominance, session_state>>

NextStorage ==
  \/ \E p \in Writers, v \in {"data", "more", NotJson} : SaveHistoryCall(p, v)
  \/ \E p \in Writers : SaveHistoryLoad(p)
  \/ \E p \in Writers, writable \in BOOLEAN : SaveHistoryOpen(p, writable)
  \/ \E p \in Writers : SaveHistoryDump(p)
  \/ \E p \in Writers : SaveHistoryReturn(p)

SpecStorage == InitStorage /\ [][NextStorage]_vars

(***************************************************************************)
(* utils/storage.py get_recent_calculations on the history file of a       *)
(* module.                                                                 *)
(***************************************************************************)
\* the most records of the history files followed, and the clock values of
\* their timestamps
MaxStored == 3
MaxClock == 3

RecordName(i) == <<"first", "second", "third", "fourth", "fifth">>[i]

\* The files save_history can have left: each record with the timestamp of
\* its own call, which concurrent sessions may have appended out of order.
RecentFiles ==
  {Unreadable} \cup
  UNION {{JsonList([i \in 1..n |-> [TestData(RecordName(i)) EXCEPT !.timestamp = clock[i]]]) :
            clock \in [1..n -> 1..MaxClock]} : n \in 0..MaxStored}

\* the limits passed: any integer
Limits == -1..(MaxStored + 1)

InitRecent ==
  /\ py_sum \in {"sequential", "compensated"}
  /\ call = NoCall
  /\ ui = NoUi
  /\ history \in RecentFiles
  /\ saves = NoSaves
  /\ merger = NoMerger
  /\ compliance = NoCompliance
  /\ dominance = NoDominance
  /\ session_state = NoSession

CallGetRecentCalculations(limit) ==
  /\ Idle
  /\ call' = [NoCall EXCEPT !.fn = "get_recent_calculations",
                            !.limit = limit,
                            !.ret_recent = get_recent_calculations(history, limit)]
  /\ UNCHANGED <<py_sum, ui, history, saves, merger, compliance, dominance, session_state>>

NextRecent ==
  \/ \E limit \in Limits : CallGetRecentCalculations(limit)
  \/ Return

SpecRecent == InitRecent /\ [][NextRecent]_vars

(***************************************************************************)
(* The merger threshold page: presses of "Calculate Thresholds".           *)
(***************************************************************************)
InitMerger ==
  /\ py_sum \in {"sequential", "compensated"}
  /\ call = NoCall
  /\ ui = NoUi
  /\ history \in {JsonList(<<>>), Unreadable}
  /\ saves = NoSaves
  /\ merger = NoMerger
  /\ compliance = NoCompliance
  /\ dominance = NoDominance
  /\ session_state = NoSession

\* lines 141-143: no party with a name and a turnover
RenderNoParties ==
  /\ Idle
  /\ merger' = [NoMerger EXCEPT
                  !.phase = "rejected",
                  !.error = "Please enter at least one party with turnover data."]
  /\ UNCHANGED <<py_sum, call, ui, history, saves, compliance, dominance, session_state>>

\* lines 144-147: the button with these parties in the form
CalculateMergerThresholds(buyer_parties, target_parties, manual_rate, live, show_advanced) ==
  /\ Idle
  /\ Len(buyer_parties) + Len(target_parties) > 0
  /\ Cardinality(Appended(history)) < MaxHistory
  /\ \E world \in Worlds :
       \E r \in {calculate_merger_thresholds(history, buyer_parties, target_parties,
                                             manual_rate, live, show_advanced,
                                             Now(history), world)} :
         /\ merger' = r.merger
         /\ history' = r.history
  /\ UNCHANGED <<py_sum, call, ui, saves, compliance, dominance, session_state>>

\* The page is run again: what the last run rendered is gone.
RerunMerger ==
  /\ merger # NoMerger
  /\ merger' = NoMerger
  /\ UNCHANGED <<py_sum, call, ui, history, saves, compliance, dominance, session_state>>

NextMerger ==
  \/ RenderNoParties
  \/ \E case \in MergerCases, manual_rate \in OverrideRates, live \in LiveLookups,
        show_advanced \in BOOLEAN :
          CalculateMergerThresholds(case.buyers, case.targets, manual_rate, live, show_advanced)
  \/ RerunMerger

SpecMerger == InitMerger /\ [][NextMerger]_vars

(***************************************************************************)
(* pages/03_Compliance_Checklist.py: the form and its button.              *)
(***************************************************************************)
\* lines 52-91: the selectboxes and the press of "Calculate Risk Score"
CalculateRiskScore(responses) ==
  /\ Idle
  /\ \E total_score \in {TotalScore(responses)} :
       compliance' = calculate_compliance_score(responses, total_score,
                                                ComplianceRiskLevel(total_score))
  /\ UNCHANGED <<py_sum, call, ui, history, saves, merger, dominance, session_state>>

\* The page is run again and shows the empty form.
RerunCompliance ==
  /\ compliance # NoCompliance
  /\ compliance' = NoCompliance
  /\ UNCHANGED <<py_sum, call, ui, history, saves, merger, dominance, session_state>>

NextCompliance ==
  \/ \E answered \in AnsweredSets : \E answers \in [answered -> {"Sometimes", "Yes"}] :
        CalculateRiskScore(Checklist(answered, answers))
  \/ \E response \in ResponseOptions :
        CalculateRiskScore([i \in 1..Len(COMPLIANCE_QUESTIONS) |-> response])
  \/ RerunCompliance

SpecCompliance == Init /\ [][NextCompliance]_vars

(***************************************************************************)
(* pages/04_Dominance_Risk_Checker.py: the form and its button.            *)
(***************************************************************************)
\* lines 115-122: the button with the values entered
Assess(your_market_share, fields, hhi_value, vertical_integration, network_effects, entry_barriers) ==
  IF Greater(your_market_share, Zero)
  THEN \E rival_shares \in {RivalsFrom(fields, 1, <<>>)} :
         \E risk_factors \in {RiskFactors(your_market_share, rival_shares, hhi_value,
                                          vertical_integration, network_effects,
                                          entry_barriers)} :
           \E total_risk_score \in {AddedFrom(risk_factors, 1)} :
             dominance' = calculate_dominance_risk(
                            your_market_share, rival_shares, hhi_value,
                            vertical_integration, network_effects, entry_barriers,
                            risk_factors, total_risk_score,
                            DominanceRiskLevel(total_risk_score))
  ELSE dominance' = [NoDominance EXCEPT
                       !.phase = "error",
                       !.error_message = "Please enter your firm's market share to proceed."]

\* lines 56-122: the inputs and the press of "Assess Dominance Risk"
AssessDominanceRisk ==
  /\ Idle
  /\ \E your_market_share \in OwnShares, fields \in [1..3 -> RivalInputs], hhi_value \in HhiInputs :
       \E vertical_integration \in BOOLEAN, network_effects \in BOOLEAN :
         \E entry_barriers \in {"Low", "Medium", "High"} :
           Assess(your_market_share, fields, hhi_value, vertical_integration,
                  network_effects, entry_barriers)
  /\ UNCHANGED <<py_sum, call, ui, history, saves, merger, compliance, session_state>>

\* The page is run again and shows the empty form.
RerunDominance ==
  /\ dominance # NoDominance
  /\ dominance' = NoDominance
  /\ UNCHANGED <<py_sum, call, ui, history, saves, merger, compliance, session_state>>

NextDominance == AssessDominanceRisk \/ RerunDominance

SpecDominance == Init /\ [][NextDominance]_vars

(***************************************************************************)
(* pages/01_Merger_Threshold_Calculator.py party_row, run after run.       *)
(***************************************************************************)
\* A run of the script.  The first run shows the widgets at their defaults;
\* before a later run the user has selected a currency and has left the
\* amount as stored or typed another one.
PartyRow ==
  /\ call = NoCall /\ ui = NoUi /\ merger = NoMerger
  /\ session_state.runs < MaxRuns
  /\ \E cur \in Currencies, amt \in EnteredAmounts \cup {session_state.amount}, live \in RowRates :
       /\ session_state.runs = 0 => (cur = "TRY" /\ amt = Zero)
       /\ session_state' =
            party_row(session_state,
                      IF session_state.prev_currency = "" THEN "TRY"
                      ELSE session_state.prev_currency,
                      cur, amt, live)
  /\ UNCHANGED <<py_sum, call, ui, history, saves, merger, compliance, dominance>>

\* The session ends and another begins.
NewSession ==
  /\ session_state # NoSession
  /\ session_state' = NoSession
  /\ UNCHANGED <<py_sum, call, ui, history, saves, merger, compliance, dominance>>

NextParty == PartyRow \/ NewSession

SpecParty == Init /\ [][NextParty]_vars

(***************************************************************************)
(* Exact (unrounded) quantities the properties compare the results with.   *)
(***************************************************************************)
RECURSIVE ExactSumFrom(_, _)
ExactSumFrom(v, i) == IF i > Len(v) THEN Zero ELSE DAdd(v[i], ExactSumFrom(v, i + 1))

\* the sum of the numbers of v, in exact arithmetic
ExactSum(v) == ExactSumFrom(v, 1)

\* sum of (share/100)^2 * 10000 = sum of share^2, in exact arithmetic
ExactHhi(market_shares) ==
  ExactSum([i \in 1..Len(market_shares) |->
              DMul(market_shares[i].share, market_shares[i].share)])

\* relative rounding tolerance 2^-40 (about 9.1e-13)
RelTol == Pow2(-40)

\* |x - y| <= 2^-40 * |y|
Close(x, y) == LessEq(DAbs(DSub(x, y)), DMul(RelTol, DAbs(y)))

\* the tolerance 1e-6 the validator's contract names
Epsilon == Dec(1, 6)

Hundred == FromInt(100)

AllInRange(market_shares) ==
  \A i \in 1..Len(market_shares) :
    /\ LessEq(Zero, market_shares[i].share)
    /\ LessEq(market_shares[i].share, Hundred)

NonNegative(market_shares) ==
  \A i \in 1..Len(market_shares) : LessEq(Zero, market_shares[i].share)

HasNegative(market_shares) ==
  \E i \in 1..Len(market_shares) : Less(market_shares[i].share, Zero)

HasOver100(market_shares) ==
  \E i \in 1..Len(market_shares) : Greater(market_shares[i].share, Hundred)

CalledHhi == call.fn = "calculate_hhi"

CalledInterpretation == call.fn = "get_hhi_interpretation"

CalledValidate == call.fn = "validate_market_shares"

CalledNormalize == call.fn = "normalize_market_shares"

\* 3000.0000000000005, the double next above 3000
Next3000 == DAdd(FromInt(3000), Pow2(-41))

(***************************************************************************)
(* C1.  As claimed: calculate_hhi returns the sum over all firms of        *)
(* (share/100)^2 times 10000: 0 for the empty mapping without raising,     *)
(* 10000 for {A:100}, 2500 for four shares of 25, and 3000 for             *)
(* 40/30/20/10.                                                            *)
(***************************************************************************)
C1_Original ==
  CalledHhi =>
    /\ ~call.raised
    /\ Close(call.ret_number, ExactHhi(call.market_shares))
    /\ (call.market_shares = <<>> => call.ret_number = Zero)
    /\ (call.market_shares = Monopoly => call.ret_number = FromInt(10000))
    /\ (call.market_shares = Quartiles => call.ret_number = FromInt(2500))
    /\ (call.market_shares = TestShares => call.ret_number = FromInt(3000))

(***************************************************************************)
(* C1, amended.  calculate_hhi returns the sum over all firms of           *)
(* (share/100)^2 times 10000 up to float rounding (relative error at most  *)
(* 2^-40): exactly 0 for the empty mapping, exactly 10000 for {A:100},     *)
(* exactly 2500 for four shares of 25, and 3000.0000000000005 (formatted   *)
(* with no decimals: 3000) for 40/30/20/10.  It never raises.              *)
(***************************************************************************)
C1_HhiFormula ==
  CalledHhi =>
    /\ ~call.raised
    /\ Close(call.ret_number, ExactHhi(call.market_shares))
    /\ (call.market_shares = <<>> => call.ret_number = Zero)
    /\ (call.market_shares = Monopoly => call.ret_number = FromInt(10000))
    /\ (call.market_shares = Quartiles => call.ret_number = FromInt(2500))
    /\ (call.market_shares = TestShares =>
          /\ call.ret_number = Next3000
          /\ FormatFixed(call.ret_number, 0) = 3000)

C1_Witness ==
  /\ CalledHhi
  /\ call.market_shares = TestShares
  /\ call.ret_number = Next3000

C4_ValidWithinEpsilon ==
  ( /\ CalledValidate
    /\ call.market_shares # <<>>
    /\ AllInRange(call.market_shares)
    /\ LessEq(ExactSum(Values(call.market_shares)), DAdd(Hundred, Epsilon)) )
  => call.ret_valid

(***************************************************************************)
(* C5.  validate_market_shares returns Invalid with a non-empty reason     *)
(* whenever the set is empty, or a share is negative, or a share exceeds   *)
(* 100, or the sum exceeds 100 + epsilon, in every combination.            *)
(***************************************************************************)
C5_Rejects ==
  ( /\ CalledValidate
    /\ \/ call.market_shares = <<>>
       \/ HasNegative(call.market_shares)
       \/ HasOver100(call.market_shares)
       \/ Greater(ExactSum(Values(call.market_shares)), DAdd(Hundred, Epsilon)) )
  => (~call.ret_valid /\ call.ret_message.text # "")

\* a negative share offsets a share above 100: the total is 95
C5_Witness ==
  /\ CalledValidate
  /\ call.market_shares = Named(<<FromInt(-10), FromInt(105)>>)
  /\ ~call.ret_valid

(***************************************************************************)
(* C6.  A rejection of a set with a negative share names a firm whose      *)
(* share is negative; a rejection only for a total above 100 carries the   *)
(* total; every rejection of a non-empty set identifies the failing value  *)
(* (a firm or the total).                                                  *)
(***************************************************************************)
NamesNegativeFirm(market_shares, message) ==
  \E i \in 1..Len(market_shares) :
    /\ message.firm = <<market_shares[i].firm>>
    /\ Less(market_shares[i].share, Zero)

C6_SpecificReason ==
  (CalledValidate /\ ~call.ret_valid) =>
    /\ HasNegative(call.market_shares) =>
         NamesNegativeFirm(call.market_shares, call.ret_message)
    /\ (call.market_shares # <<>> /\ AllInRange(call.market_shares)) =>
         call.ret_message.total # <<>>
    /\ call.market_shares # <<>> =>
         (call.ret_message.firm # <<>> \/ call.ret_message.total # <<>>)

(***************************************************************************)
(* C7.  As claimed: for every non-empty share set that is not all zeros,   *)
(* normalize_market_shares returns shares that sum to 100 within the       *)
(* tolerance 1e-6.                                                         *)
(***************************************************************************)
NotAllZero(market_shares) ==
  \E i \in 1..Len(market_shares) : market_shares[i].share # Zero

SumsTo100(shares) == Close(ExactSum(Values(shares)), Hundred)

C7_Original ==
  (CalledNormalize /\ call.market_shares # <<>> /\ NotAllZero(call.market_shares)) =>
    /\ ~call.raised
    /\ LessEq(DAbs(DSub(ExactSum(Values(call.ret_shares)), Hundred)), Epsilon)

(***************************************************************************)
(* C7, amended.  For every non-empty set of non-negative shares that is    *)
(* not all zeros, normalize_market_shares returns shares that sum to 100   *)
(* within rounding tolerance (relative 2^-40).                             *)
(***************************************************************************)
C7_NormalizedSum ==
  ( /\ CalledNormalize
    /\ call.market_shares # <<>>
    /\ NonNegative(call.market_shares)
    /\ NotAllZero(call.market_shares) )
  => (~call.raised /\ SumsTo100(call.ret_shares))

\* 1 and 2 become 33.33333333333333 and 66.66666666666666: not exactly 100
C7_Witness ==
  /\ CalledNormalize
  /\ call.market_shares = Thirds
  /\ ExactSum(Values(call.ret_shares)) # Hundred
  /\ SumsTo100(call.ret_shares)

(***************************************************************************)
(* C8.  As claimed: normalizing a set whose shares already sum to 100      *)
(* returns the same share for every firm, and                              *)
(* normalize(normalize(s)) = normalize(s) for every s with non-zero sum.   *)
(***************************************************************************)
C8_Original ==
  (CalledNormalize /\ ExactSum(Values(call.market_shares)) # Zero) =>
    /\ ExactSum(Values(call.market_shares)) = Hundred =>
         call.ret_shares = call.market_shares
    /\ normalize_market_shares(call.ret_shares).value = call.ret_shares

SameFirmsCloseShares(a, b) ==
  /\ Keys(a) = Keys(b)
  /\ \A i \in 1..Len(a) : Close(a[i].share, b[i].share)

(***************************************************************************)
(* C8, amended.  For non-negative shares with non-zero sum, normalizing a  *)
(* set that already sums to 100, and normalizing a normalized set, changes *)
(* no share beyond float rounding (relative 2^-40).                        *)
(***************************************************************************)
C8_IdempotentUpToRounding ==
  ( /\ CalledNormalize
    /\ NonNegative(call.market_shares)
    /\ ExactSum(Values(call.market_shares)) # Zero )
  => /\ ExactSum(Values(call.market_shares)) = Hundred =>
          SameFirmsCloseShares(call.ret_shares, call.market_shares)
     /\ LET again == normalize_market_shares(call.ret_shares)
        IN  ~again.raised /\ SameFirmsCloseShares(again.value, call.ret_shares)

\* 0.1, 0.1, 0.7: the second normalization moves the last digits
C8_Witness ==
  /\ CalledNormalize
  /\ call.market_shares = Ninths
  /\ normalize_market_shares(call.ret_shares).value # call.ret_shares

(***************************************************************************)
(* C9.  As claimed: normalize_market_shares returns the same firm names in *)
(* the same order, each share equal to share * 100 / sum(shares) (as       *)
(* floats), and does not modify its input.                                 *)
(***************************************************************************)
C9_Original ==
  (CalledNormalize /\ PySum(Values(call.market_shares)) # Zero) =>
    LET ms == call.market_shares
        T  == PySum(Values(ms))
        r  == call.ret_shares
    IN  /\ ~call.raised
        /\ Keys(r) = Keys(ms)
        /\ \A i \in 1..Len(ms) :
             r[i].share = FloatDiv(FloatMul(ms[i].share, Hundred), T)
        /\ call.after = ms

(***************************************************************************)
(* C9, amended.  For a non-zero sum, normalize_market_shares returns the   *)
(* same firm names in the same order, each share equal to                  *)
(* (share / sum(shares)) * 100 as the floats compute it, which is          *)
(* share * 100 / sum(shares) up to float rounding (relative 2^-40); the    *)
(* ratio of any two shares is unchanged up to that rounding; the input is  *)
(* not modified.                                                           *)
(***************************************************************************)
C9_Rescaled ==
  (CalledNormalize /\ PySum(Values(call.market_shares)) # Zero) =>
    LET ms == call.market_shares
        T  == PySum(Values(ms))
        r  == call.ret_shares
    IN  /\ ~call.raised
        /\ Keys(r) = Keys(ms)
        /\ \A i \in 1..Len(ms) :
             Close(DMul(r[i].share, T), DMul(Hundred, ms[i].share))
        /\ \A i, j \in 1..Len(ms) :
             Close(DMul(r[i].share, ms[j].share), DMul(r[j].share, ms[i].share))
        /\ call.after = ms

\* 1 and 2: 33.33333333333333 and 66.66666666666666, where 1 * 100 / 3 is
\* 33.333333333333336
C9_Witness ==
  /\ CalledNormalize
  /\ call.market_shares = Thirds
  /\ Keys(call.ret_shares) = <<"Firm 1", "Firm 2">>
  /\ call.ret_shares[1].share # FloatDiv(FromInt(100), FromInt(3))
  /\ Close(call.ret_shares[1].share, FloatDiv(FromInt(100), FromInt(3)))

(***************************************************************************)
(* C10.  When the shares sum to exactly zero, normalize_market_shares      *)
(* returns the input unchanged and raises no error.                        *)
(***************************************************************************)
C10_ZeroSumUnchanged ==
  (CalledNormalize /\ ExactSum(Values(call.market_shares)) = Zero) =>
    /\ ~call.raised
    /\ call.ret_shares = call.market_shares
    /\ call.after = call.market_shares

C10_Witness ==
  /\ CalledNormalize
  /\ call.market_shares = Named(<<Zero, Zero>>)
  /\ ~call.raised
  /\ call.ret_shares = call.market_shares

Done == ui.phase = "done"

(***************************************************************************)
(* C3.  As claimed: the page run on {Firm A: 40, Firm B: 30, Firm C: 20,   *)
(* Firm D: 10} without normalization shows HHI 3000, band Moderate, and 4  *)
(* rows with contributions 1600, 900, 400, 100 in that order.              *)
(***************************************************************************)
ShowsTestRows ==
  /\ ui.hhi_card = 3000
  /\ Len(ui.shares_data) = 4
  /\ [i \in 1..4 |-> ui.shares_data[i].Firm] = Keys(TestShares)
  /\ [i \in 1..4 |-> ui.shares_data[i].Contribution] = <<1600, 900, 400, 100>>

C3_Original ==
  (Done /\ ui.submitted = TestShares /\ ~ui.normalize_shares) =>
    /\ ShowsTestRows
    /\ ui.summary.InterpretationBand = "moderate"

(***************************************************************************)
(* C3, amended.  The page run on {Firm A: 40, Firm B: 30, Firm C: 20,      *)
(* Firm D: 10} without normalization shows HHI 3000 (the value             *)
(* 3000.0000000000005 with no decimals), band High ("High concentration",  *)
(* as 3000 >= 2500), and 4 rows, Firm A to Firm D, with contributions      *)
(* shown as 1600, 900, 400, 100; the exported rows hold the same           *)
(* contributions up to float rounding.                                     *)
(***************************************************************************)
C3_EndToEnd ==
  (Done /\ ui.submitted = TestShares /\ ~ui.normalize_shares) =>
    /\ ShowsTestRows
    /\ ui.summary.HhiValue = Next3000
    /\ ui.summary.InterpretationBand = "high"
    /\ ui.summary.ConcentrationLevel = "High concentration"
    /\ ui.band_card = "High"
    /\ Len(ui.export_shares) = 4
    /\ \A i \in 1..4 :
         /\ ui.export_shares[i][1] = TestShares[i].firm
         /\ ui.export_shares[i][2] = TestShares[i].share
         /\ Close(ui.export_shares[i][4], FromInt(<<1600, 900, 400, 100>>[i]))

C3_Witness ==
  /\ Done
  /\ ui.submitted = TestShares
  /\ ~ui.normalize_shares
  /\ ui.hhi_card = 3000
  /\ ui.summary.InterpretationBand = "high"

(***************************************************************************)
(* C11.  For every share set that validate_market_shares accepts, the page *)
(* computes an index, and the index lies in the closed range [0, 10000],   *)
(* with normalization off and with the set normalized first.               *)
(***************************************************************************)
TenThousand == FromInt(10000)

C11_HhiInRange ==
  (ui.phase # "idle" /\ validate_market_shares(ui.submitted).is_valid) =>
    /\ Done
    /\ LessEq(Zero, ui.summary.HhiValue)
    /\ LessEq(ui.summary.HhiValue, TenThousand)

\* 33.3, 20, 12.5 normalized: other shares than submitted, the index in range
C11_Witness ==
  /\ Done
  /\ ui.normalize_shares
  /\ ui.submitted = Partial
  /\ ui.export_shares[1][2] # Partial[1].share
  /\ Less(Zero, ui.summary.HhiValue)
  /\ Less(ui.summary.HhiValue, TenThousand)

(***************************************************************************)
(* C12.  The rows of the table and of the export's "shares" section are    *)
(* one per firm of the share set used for the index (the normalized set    *)
(* when normalization is on), in the order of that set; an exported row    *)
(* holds the firm, its share, (share/100)^2 and (share/100)^2 * 10000 as   *)
(* the floats compute them (equal to the exact values up to rounding), and *)
(* the table row shows the same numbers formatted.                         *)
(***************************************************************************)
UsedSharesOf(shown) ==
  IF shown.normalize_shares THEN normalize_market_shares(shown.submitted).value
  ELSE shown.submitted

UsedShares == UsedSharesOf(ui)

RowsOf(used) ==
  /\ Len(ui.shares_data) = Len(used)
  /\ Len(ui.export_shares) = Len(used)
  /\ \A i \in 1..Len(used) :
       LET row == ui.export_shares[i]
       IN  /\ row[1] = used[i].firm
           /\ row[2] = used[i].share
           /\ row[3] = FloatSquare(FloatDiv(used[i].share, Hundred))
           /\ row[4] = FloatMul(row[3], TenThousand)
           /\ Close(DMul(row[3], TenThousand), DMul(used[i].share, used[i].share))
           /\ Close(row[4], DMul(used[i].share, used[i].share))
           /\ ui.shares_data[i].Firm = used[i].firm
           /\ ui.shares_data[i].MarketShare = FormatFixed(used[i].share, 1)
           /\ ui.shares_data[i].SquaredShare = FormatFixed(row[3], 4)
           /\ ui.shares_data[i].Contribution = FormatFixed(row[4], 0)

C12_ReportRows ==
  Done => (RowsOf(UsedShares) /\ ui.summary.HhiValue = calculate_hhi(UsedShares))

\* Zeta 30, Alpha 70: the rows keep the order of the mapping
C12_Witness ==
  /\ Done
  /\ ui.submitted = Permuted
  /\ [i \in 1..2 |-> ui.export_shares[i][1]] = <<"Zeta", "Alpha">>
  /\ [i \in 1..2 |-> ui.shares_data[i].Contribution] = <<900, 4900>>

(***************************************************************************)
(* C13.  A run whose shares validate_market_shares rejects renders the     *)
(* validator's reason and nothing else: no index, no band, no rows, no     *)
(* export, and the history file is left as it was.                         *)
(***************************************************************************)
RejectedRun(shown, reason) ==
  shown = [NoUi EXCEPT !.submitted = shown.submitted,
                       !.normalize_shares = shown.normalize_shares,
                       !.phase = "invalid",
                       !.error_message = reason]

C13_RejectionStops ==
  [][ (ui'.phase # "idle" /\ ~validate_market_shares(ui'.submitted).is_valid) =>
        /\ RejectedRun(ui', validate_market_shares(ui'.submitted).error_message)
        /\ ui'.error_message.text # ""
        /\ history' = history ]_vars

\* a total of 100.000002 submitted over a history of one record
C13_Witness ==
  /\ ui.phase = "invalid"
  /\ ui.submitted = ClearlyOver100
  /\ ui.error_message.text = "Total market share exceeds 100% ({total_share:.1f}%)"
  /\ ui.summary = NoSummary
  /\ ~ui.export_bar
  /\ history = JsonList(<<PriorRecord>>)

(***************************************************************************)
(* C14.  As claimed: every submission whose shares pass validation appends *)
(* exactly one record to the history, after the results were rendered; its *)
(* summary holds the index, the interpreter's band and description for it, *)
(* the number of firms and the sum of the shares used.                     *)
(***************************************************************************)
\* the record of a run that rendered shown
RecordOf(shown, used, timestamp) ==
  [module |-> "hhi_calculator",
   inputs |-> [market_shares |-> used,
               normalize_shares |-> shown.normalize_shares,
               num_firms |-> Len(used)],
   result |-> [HhiValue           |-> calculate_hhi(used),
               ConcentrationLevel |-> get_hhi_interpretation(calculate_hhi(used)).description,
               InterpretationBand |-> get_hhi_interpretation(calculate_hhi(used)).band,
               NumberOfFirms      |-> Len(used),
               TotalMarketShare   |-> PySum(Values(used)),
               CalculationDate    |-> timestamp],
   timestamp |-> timestamp]

AppendsRecord(shown, before, after) ==
  /\ after.is_list
  /\ Len(after.records) = Len(load_history(before)) + 1
  /\ SubSeq(after.records, 1, Len(load_history(before))) = load_history(before)
  /\ after.records[Len(after.records)] =
       RecordOf(shown, UsedSharesOf(shown), after.records[Len(after.records)].timestamp)

AcceptedRun(shown) ==
  shown.phase # "idle" /\ validate_market_shares(shown.submitted).is_valid

C14_Original ==
  [][ AcceptedRun(ui') => (ui'.phase = "done" /\ AppendsRecord(ui', history, history')) ]_vars

(***************************************************************************)
(* C14, amended.  Every submission whose shares pass validation renders    *)
(* the results and then saves once.  When the save succeeds, exactly one   *)
(* record is appended after the records the file held, and its summary     *)
(* holds the index, the interpreter's band and description for it, the     *)
(* number of firms and the sum of the shares used (the normalized ones     *)
(* when normalization is on).  When the save fails, no record is appended  *)
(* and the page shows the save error next to the results.                  *)
(***************************************************************************)
C14_RecordAppended ==
  [][ AcceptedRun(ui') =>
        /\ ui'.phase = "done"
        /\ ui'.hhi_card = FormatFixed(calculate_hhi(UsedSharesOf(ui')), 0)
        /\ IF ui'.save_error
           THEN history' \in {history, Unreadable}
           ELSE AppendsRecord(ui', history, history') ]_vars

\* 33.3, 20, 12.5 normalized and saved after an earlier record
C14_Witness ==
  /\ Done
  /\ ~ui.save_error
  /\ ui.normalize_shares
  /\ ui.submitted = Partial
  /\ Len(history.records) = 2
  /\ history.records[1] = PriorRecord
  /\ history.records[2].inputs.market_shares # Partial
  /\ history.records[2].result.NumberOfFirms = 3
  /\ Close(history.records[2].result.TotalMarketShare, Hundred)

(***************************************************************************)
(* C15.  A collaborator failing after the index was computed (the PDF      *)
(* report, the CSV text, the history save) does not abort the run: the     *)
(* index and the band stay displayed, the "Error during calculation" path  *)
(* is not taken, and a failed PDF report does not keep the history record  *)
(* from being appended.                                                    *)
(***************************************************************************)
ResultsDisplayed(shown) ==
  /\ shown.phase = "done"
  /\ shown.error_message = NoMessage
  /\ shown.hhi_card = FormatFixed(calculate_hhi(UsedSharesOf(shown)), 0)
  /\ shown.band_card = Title(get_hhi_interpretation(calculate_hhi(UsedSharesOf(shown))).band)
  /\ shown.banner = Title(get_hhi_interpretation(calculate_hhi(UsedSharesOf(shown))).description)
  /\ Len(shown.shares_data) = Len(UsedSharesOf(shown))

C15_FailuresDoNotAbort ==
  [][ AcceptedRun(ui') =>
        /\ ResultsDisplayed(ui')
        /\ ui'.export_bar = (ui'.pdf_data \/ ui'.csv_data)
        /\ (~ui'.pdf_data /\ ~ui'.save_error) => AppendsRecord(ui', history, history') ]_vars

\* no report and no CSV text: the results are shown and the record is stored
C15_Witness ==
  /\ Done
  /\ ui.submitted = TestShares
  /\ ~ui.pdf_data
  /\ ~ui.csv_data
  /\ ~ui.export_bar
  /\ ui.hhi_card = 3000
  /\ ui.band_card = "High"
  /\ ~ui.save_error
  /\ Len(history.records) = 2

(***************************************************************************)
(* C16.  The history of a module is append-only: a call of save_history    *)
(* leaves the records that were stored before it in place, unchanged and   *)
(* in the same order, whether it returns True or False, and a call that    *)
(* returns True leaves them followed by the stamped payload.  (One         *)
(* session, so that calls follow one another.)                             *)
(***************************************************************************)
IsPrefix(s, t) == Len(s) <= Len(t) /\ SubSeq(t, 1, Len(s)) = s

\* session p leaves save_history in this step
Returning(p) == saves.proc[p].pc \in {"loaded", "opened"} /\ saves'.proc[p].pc = "returned"

StoredBefore(p) == SubSeq(saves.proc[p].existing_data, 1, Len(saves.proc[p].existing_data) - 1)

C16_AppendOnly ==
  [][ \A p \in Writers :
        (saves.sessions = 1 /\ Returning(p)) =>
          /\ IsPrefix(StoredBefore(p), load_history(history'))
          /\ saves'.proc[p].ret => load_history(history') = saves.proc[p].existing_data ]_vars

\* the part of C16 about the calls that return True
C16_SuccessfulSaveAppends ==
  [][ \A p \in Writers :
        (saves.sessions = 1 /\ Returning(p) /\ saves'.proc[p].ret) =>
          load_history(history') = saves.proc[p].existing_data ]_vars

(***************************************************************************)
(* C17.  When two calls of save_history on the same file have both         *)
(* returned True, whatever the interleaving of their statements, the       *)
(* stored history holds both payloads and every record either call found   *)
(* stored.                                                                 *)
(***************************************************************************)
Stored(record) == \E i \in 1..Len(load_history(history)) : load_history(history)[i] = record

BothReturnedTrue == \A p \in Writers : saves.proc[p].pc = "returned" /\ saves.proc[p].ret

C17_NoLostUpdate ==
  BothReturnedTrue =>
    \A p \in Writers : \A i \in 1..Len(saves.proc[p].existing_data) :
      Stored(saves.proc[p].existing_data[i])

(***************************************************************************)
(* C19.  convert_currency returns the amount unchanged when base and       *)
(* target are the same currency; otherwise amount * override_rate when a   *)
(* manual rate is given, without looking up the live rate; otherwise       *)
(* amount * live rate when the lookup succeeds; and None, without raising, *)
(* when there is no manual rate and the lookup fails.                      *)
(***************************************************************************)
CalledConvert == call.fn = "convert_currency"

C19_ConvertCurrency ==
  CalledConvert =>
    /\ ~call.raised
    /\ call.base = call.target => call.ret_amount = Some(call.amount)
    /\ (call.base # call.target /\ ~call.override_rate.is_none) =>
         /\ call.ret_amount = Some(FloatMul(call.amount, call.override_rate.value))
         /\ ~call.looked_up
    /\ (call.base # call.target /\ call.override_rate.is_none /\ ~call.live.is_none) =>
         call.ret_amount = Some(FloatMul(call.amount, call.live.value))
    /\ (call.base # call.target /\ call.override_rate.is_none /\ call.live.is_none) =>
         call.ret_amount = None

\* test_app.py: 1000 EUR at the manual rate 1.1 while a live rate exists
C19_Witness ==
  /\ CalledConvert
  /\ call.amount = FromInt(1000)
  /\ call.base = "EUR"
  /\ call.target = "TRY"
  /\ call.override_rate = Some(Dec(11, 1))
  /\ call.live = Some(Dec(365, 1))
  /\ call.ret_amount = Some(FromInt(1100))
  /\ ~call.looked_up

(***************************************************************************)
(* C18.  In the merger threshold calculator, every calculation in which    *)
(* at least one party's turnover was converted completes: the except       *)
(* branch is not taken, the export bar is rendered, and exactly one record *)
(* is appended to the history of the module.                               *)
(***************************************************************************)
SomeConverted(shown) == Len(shown.converted_buyers) + Len(shown.converted_targets) > 0

C18_CalculationCompletes ==
  [][ (merger'.phase \in {"done", "exception"} /\ SomeConverted(merger')) =>
        /\ merger'.phase = "done"
        /\ merger'.error = ""
        /\ merger'.export_bar
        /\ Len(load_history(history')) = Len(load_history(history)) + 1 ]_vars

(***************************************************************************)
(* C20.  The merger calculator reports a transaction as notifiable exactly *)
(* when the combined converted turnover of all parties is at least         *)
(* 500,000,000 TRY and the converted turnover of at least one party is at  *)
(* least 50,000,000 TRY.                                                   *)
(***************************************************************************)
SomePartyAtLeast(converted, threshold) ==
  \E i \in 1..Len(converted) : AtLeast(converted[i].converted.value, threshold)

C20_Notifiable ==
  merger.verdict # "" =>
    (merger.verdict = "Likely Notifiable"
       <=> /\ AtLeast(merger.total_combined_turnover, global_threshold)
           /\ \/ SomePartyAtLeast(merger.converted_buyers, local_threshold)
              \/ SomePartyAtLeast(merger.converted_targets, local_threshold))

(***************************************************************************)
(* C23.  Normalization is applied only when the toggle is on.  With the    *)
(* toggle off, the shares behind the index, the report rows, the CSV text  *)
(* and the stored history inputs are the submitted shares; with it on,     *)
(* they are normalize_market_shares of the submitted shares and the        *)
(* message shows the original sum.                                         *)
(***************************************************************************)
SharesOfRows(rows) == [i \in 1..Len(rows) |-> Entry(rows[i][1], rows[i][2])]

UsesShares(shown, used, file) ==
  /\ shown.summary.HhiValue = calculate_hhi(used)
  /\ shown.hhi_card = FormatFixed(calculate_hhi(used), 0)
  /\ SharesOfRows(shown.export_shares) = used
  /\ shown.csv_data => shown.csv_shares = used
  /\ ~shown.save_error => file.records[Len(file.records)].inputs.market_shares = used

C23_NormalizationOptIn ==
  [][ AcceptedRun(ui') =>
        IF ui'.normalize_shares
        THEN /\ UsesShares(ui', normalize_market_shares(ui'.submitted).value, history')
             /\ ui'.info_original_sum = <<FormatFixed(PySum(Values(ui'.submitted)), 1)>>
        ELSE /\ UsesShares(ui', ui'.submitted, history')
             /\ ui'.info_original_sum = <<>> ]_vars

\* 33.3, 20 and 12.5 submitted with the toggle on: the original sum 65.8 is
\* shown and the normalized shares are exported and stored
C23_Witness ==
  /\ Done
  /\ ui.submitted = Partial
  /\ ui.normalize_shares
  /\ ui.csv_data
  /\ ~ui.save_error
  /\ ui.csv_shares # Partial
  /\ ui.info_original_sum = <<658>>
  /\ history.records[Len(history.records)].inputs.market_shares = ui.csv_shares

(***************************************************************************)
(* C29.  As claimed: for every share set the validator accepts whose sum   *)
(* is not zero, the index of the normalized shares is at least the index   *)
(* of the shares, with equality exactly when the shares sum to 100, and    *)
(* the band of the normalized shares is not a lower one.                   *)
(***************************************************************************)
BandRank(hhi_value) ==
  IF get_hhi_interpretation(hhi_value).band = "low" THEN 1
  ELSE IF get_hhi_interpretation(hhi_value).band = "moderate" THEN 2 ELSE 3

AcceptedNonZero(market_shares) ==
  /\ validate_market_shares(market_shares).is_valid
  /\ PySum(Values(market_shares)) # Zero

HhiBefore == calculate_hhi(call.market_shares)
HhiAfter == calculate_hhi(call.ret_shares)

C29_Original ==
  (CalledNormalize /\ AcceptedNonZero(call.market_shares)) =>
    /\ LessEq(HhiBefore, HhiAfter)
    /\ (HhiAfter = HhiBefore) <=> (PySum(Values(call.market_shares)) = Hundred)
    /\ BandRank(HhiBefore) <= BandRank(HhiAfter)

(***************************************************************************)
(* C29, amended.  For every share set the validator accepts whose sum is   *)
(* not zero, the index of the normalized shares is at least the index of   *)
(* the shares and its band is not a lower one; the two indices are equal   *)
(* when the shares sum to 100, and the normalized one is greater when the  *)
(* sum is below 100 by more than rounding (relative 2^-40).  A sum a few   *)
(* units in the last place below 100 may leave the index unchanged.        *)
(***************************************************************************)
ClearlyBelow100(x) == Less(x, DSub(Hundred, DMul(RelTol, Hundred)))

C29_NormalizingRaisesIndex ==
  (CalledNormalize /\ AcceptedNonZero(call.market_shares)) =>
    /\ LessEq(HhiBefore, HhiAfter)
    /\ PySum(Values(call.market_shares)) = Hundred => HhiAfter = HhiBefore
    /\ ClearlyBelow100(PySum(Values(call.market_shares))) => Less(HhiBefore, HhiAfter)
    /\ BandRank(HhiBefore) <= BandRank(HhiAfter)

\* 9.8 and 90.19999999999999 sum to 99.99999999999999 and the index stays
\* the same
C29_Witness ==
  /\ CalledNormalize
  /\ call.market_shares = NearlyFull
  /\ AcceptedNonZero(call.market_shares)
  /\ PySum(Values(call.market_shares)) # Hundred
  /\ call.ret_shares # call.market_shares
  /\ HhiAfter = HhiBefore

(***************************************************************************)
(* C24.  The HHI calculation is started only with at least 2 entries:      *)
(* when fewer than 2 different firm names remain after the rows with an    *)
(* empty name or a share of 0 are dropped, the submit renders an error and *)
(* runs neither validation nor calculation nor history logging; otherwise  *)
(* the calculation runs on one entry per remaining name.                   *)
(***************************************************************************)
RemainingNames(rows) ==
  {rows[i].firm_name : i \in {j \in 1..Len(rows) :
                                rows[j].firm_name # "" /\ rows[j].market_share # Zero}}

TooFewShown(shown) ==
  shown = [NoUi EXCEPT
             !.form = shown.form,
             !.phase = "too_few",
             !.error_message =
                Message("Please enter at least 2 firms with market share data.", <<>>, <<>>)]

C24_AtLeastTwoEntries ==
  [][ ui'.phase # "idle" =>
        IF Cardinality(RemainingNames(ui'.form)) < 2
        THEN TooFewShown(ui') /\ history' = history
        ELSE /\ ui'.phase \in {"done", "invalid"}
             /\ {ui'.submitted[i].firm : i \in 1..Len(ui'.submitted)} = RemainingNames(ui'.form)
             /\ Len(ui'.submitted) = Cardinality(RemainingNames(ui'.form)) ]_vars

\* "Firm 1" twice and a row with share 0: one entry remains
C24_Witness ==
  /\ ui.phase = "too_few"
  /\ ui.form = <<Row("Firm 1", FromInt(40)), Row("Firm 1", FromInt(60)), Row("Firm 2", Zero)>>
  /\ ui.hhi_card = 0
  /\ ui.summary = NoSummary

(***************************************************************************)
(* C26.  The band-position chart draws three bands whose boundaries agree  *)
(* with the interpreter's (Low 0 to 1500, Moderate 1500 to 2500, High from *)
(* 2500), and for every index value in 0..10000 the marker lies inside the *)
(* displayed range and inside the drawn band that get_hhi_interpretation   *)
(* assigns to the value.                                                   *)
(***************************************************************************)
CalledChart == call.fn = "create_hhi_concentration_chart"

Within(x, start, end) == AtLeast(x, start) /\ LessEq(x, FromInt(end))

C26_MarkerInBand ==
  (CalledChart /\ Within(call.hhi_value, 0, 10000)) =>
    /\ Len(call.ret_chart.bands) = 3
    /\ call.ret_chart.bands[1].start = 0
    /\ call.ret_chart.bands[1].end = HHI_BANDS_low_max
    /\ call.ret_chart.bands[2].start = HHI_BANDS_low_max
    /\ call.ret_chart.bands[2].end = HHI_BANDS_moderate_max
    /\ call.ret_chart.bands[3].start = HHI_BANDS_moderate_max
    /\ call.ret_chart.marker = call.hhi_value
    /\ Within(call.ret_chart.marker, call.ret_chart.xlim[1], call.ret_chart.xlim[2])
    /\ \E i \in 1..3 :
         /\ call.ret_chart.bands[i].label = Title(get_hhi_interpretation(call.hhi_value).band)
         /\ Within(call.ret_chart.marker, call.ret_chart.bands[i].start,
                   call.ret_chart.bands[i].end)

\* the part of C26 that holds: up to 5000 the marker is in range and in its band
C26_UpTo5000 ==
  (CalledChart /\ Within(call.hhi_value, 0, ChartXMax)) =>
    /\ Within(call.ret_chart.marker, call.ret_chart.xlim[1], call.ret_chart.xlim[2])
    /\ \E i \in 1..3 :
         /\ call.ret_chart.bands[i].label = Title(get_hhi_interpretation(call.hhi_value).band)
         /\ Within(call.ret_chart.marker, call.ret_chart.bands[i].start,
                   call.ret_chart.bands[i].end)

(***************************************************************************)
(* C21  In the compliance checklist each answer adds to the total risk     *)
(* score what the page documents: "Yes" 3 points, "Sometimes" 2 points,    *)
(* "No" 0 points, for every question.                                      *)
(***************************************************************************)
\* pages/03_Compliance_Checklist.py lines 47-50: the scoring the page states
DocumentedPoints(response) ==
  IF response = "Yes" THEN 3 ELSE IF response = "Sometimes" THEN 2 ELSE 0

RECURSIVE DocumentedTotalFrom(_, _)
DocumentedTotalFrom(responses, i) ==
  IF i > Len(responses) THEN 0
  ELSE DocumentedPoints(responses[i]) + DocumentedTotalFrom(responses, i + 1)

ScoreShown == compliance.phase = "results"

C21_DocumentedPoints ==
  ScoreShown =>
    DCmp(compliance.total_score, FromInt(DocumentedTotalFrom(compliance.responses, 1))) = 0

\* twice the points the code gives: the weight for "Yes", half of it for "Sometimes"
RECURSIVE WeightedTwiceFrom(_, _)
WeightedTwiceFrom(responses, i) ==
  IF i > Len(responses) THEN 0
  ELSE (IF responses[i] = "Yes" THEN 2 * COMPLIANCE_QUESTIONS[i].weight
        ELSE IF responses[i] = "Sometimes" THEN COMPLIANCE_QUESTIONS[i].weight
        ELSE 0) + WeightedTwiceFrom(responses, i + 1)

\* what holds instead: the score is the sum of the weights of the "Yes"
\* answers and half the weights of the "Sometimes" answers
C21_WeightedPoints ==
  ScoreShown =>
    DCmp(FloatMul(compliance.total_score, FromInt(2)),
         FromInt(WeightedTwiceFrom(compliance.responses, 1))) = 0

(***************************************************************************)
(* C22  In the dominance risk checker the total risk score is never above  *)
(* 12, the maximum the result card displays, for every combination of      *)
(* inputs the form accepts; and the risk level is High exactly when the    *)
(* score is at least 8, Medium when it is 5..7 and Low otherwise.          *)
(***************************************************************************)
Assessed == dominance.phase = "results"

LevelOfScore ==
  /\ dominance.risk_level = "High" <=> dominance.total_risk_score >= 8
  /\ dominance.risk_level = "Medium" <=> dominance.total_risk_score \in 5..7
  /\ dominance.risk_level = "Low" <=> dominance.total_risk_score < 5

C22_ScoreAtMostDisplayedMax ==
  Assessed =>
    /\ dominance.total_risk_score <= dominance.max_card
    /\ dominance.score_card = dominance.total_risk_score
    /\ dominance.max_card = 12
    /\ LevelOfScore

\* the part of C22 that holds: the level follows the score
C22_LevelThresholds == Assessed => LevelOfScore

\* the shares entered do not exceed 100 per cent together
SharesOfOneMarket ==
  LessEq(PySum(<<dominance.your_market_share>> \o Slice(dominance.rival_shares, 3)),
         FromInt(100))

\* the score stays within the displayed maximum for the shares of one market
C22_WithinMaxForOneMarket ==
  (Assessed /\ SharesOfOneMarket) => dominance.total_risk_score <= DisplayedMax

(***************************************************************************)
(* C27  In the dominance risk checker the recommendations shown and        *)
(* exported match the computed risk level: the high-risk list for High,    *)
(* the medium-risk list for Medium and the low-risk list for Low.          *)
(***************************************************************************)
ListOfLevel(risk_level) ==
  CASE risk_level = "High"   -> HighRiskList
    [] risk_level = "Medium" -> MediumRiskList
    [] risk_level = "Low"    -> LowRiskList

C27_RecommendationsMatchLevel ==
  Assessed =>
    /\ dominance.recommendations = ListOfLevel(dominance.risk_level)
    /\ dominance.export_recommendations = ListOfLevel(dominance.risk_level)

\* what holds instead: the low-risk list is shown and exported at every level
C27_AlwaysLowRiskList ==
  Assessed =>
    /\ dominance.recommendations = LowRiskList
    /\ dominance.export_recommendations = LowRiskList

(***************************************************************************)
(* C28  In the dominance risk checker the per-factor scores of the risk    *)
(* factor table and of the export add up to the total risk score shown     *)
(* for the same inputs.                                                    *)
(***************************************************************************)
RECURSIVE TableScoresFrom(_, _)
TableScoresFrom(factors_data, i) ==
  IF i > Len(factors_data) THEN 0
  ELSE factors_data[i].Score + TableScoresFrom(factors_data, i + 1)

RECURSIVE ExportScoresFrom(_, _)
ExportScoresFrom(risk_factors, i) ==
  IF i > Len(risk_factors) THEN 0
  ELSE risk_factors[i][3] + ExportScoresFrom(risk_factors, i + 1)

C28_FactorScoresAddUp ==
  Assessed =>
    /\ TableScoresFrom(dominance.factors_data, 1) = dominance.total_risk_score
    /\ ExportScoresFrom(dominance.export_risk_factors, 1) = dominance.total_risk_score

\* what holds instead: the listed scores exceed the total by 3, or by 4 when
\* rivals are entered
C28_FactorScoresExceed ==
  Assessed =>
    /\ TableScoresFrom(dominance.factors_data, 1)
         = dominance.total_risk_score + (IF dominance.rival_shares = <<>> THEN 3 ELSE 4)
    /\ ExportScoresFrom(dominance.export_risk_factors, 1)
         = TableScoresFrom(dominance.factors_data, 1)

(***************************************************************************)
(* C25  get_recent_calculations(module, limit) returns min(limit, number   *)
(* of stored records) records, ordered by timestamp from newest to oldest, *)
(* every returned record has a timestamp not before that of any stored     *)
(* record not returned, and the stored history is not changed.             *)
(***************************************************************************)
CalledRecent == call.fn = "get_recent_calculations"

RecordsOf(list) == {list[i] : i \in 1..Len(list)}

\* the result of the call for the history file as it is
MostRecent(count) ==
  /\ Len(call.ret_recent) = count
  /\ RecordsOf(call.ret_recent) \subseteq RecordsOf(load_history(history))
  /\ Cardinality(RecordsOf(call.ret_recent)) = count
  /\ \A i \in 1..Len(call.ret_recent) : \A j \in i..Len(call.ret_recent) :
       call.ret_recent[i].timestamp >= call.ret_recent[j].timestamp
  /\ \A returned \in RecordsOf(call.ret_recent) :
       \A other \in RecordsOf(load_history(history)) \ RecordsOf(call.ret_recent) :
         returned.timestamp >= other.timestamp

MinOf(a, b) == IF a < b THEN a ELSE b

C25_NegativeLimit ==
  [][(CalledRecent' /\ call'.limit < 0) =>
       /\ history' = history
       /\ MostRecent(IF Len(load_history(history)) + call.limit > 0
                     THEN Len(load_history(history)) + call.limit ELSE 0)']_vars

RowRan == session_state.runs > 0

CurrencyChanged == session_state.prev_cur # session_state.currency /\ session_state.amt.s # 0

ConvertedAtRate ==
  (CurrencyChanged /\ ~session_state.rate.is_none) =>
    session_state.amount = Round2(FloatMul(session_state.amt, session_state.rate.value))

KeptWhenUnchanged ==
  session_state.prev_cur = session_state.currency => session_state.amount = session_state.amt

RemembersCurrency == session_state.prev_currency = session_state.currency

C30_PartyRowConversion ==
  RowRan =>
    /\ ConvertedAtRate
    /\ (CurrencyChanged /\ session_state.rate.is_none) => session_state.amount.s # 0
    /\ KeptWhenUnchanged
    /\ RemembersCurrency

\* what holds instead: without a rate the stored amount becomes 0
C30_ResetWithoutRate ==
  RowRan =>
    /\ ConvertedAtRate
    /\ (CurrencyChanged /\ session_state.rate.is_none) => session_state.amount = Zero
    /\ KeptWhenUnchanged
    /\ RemembersCurrency

====
